---- MODULE Spec2Model ----
(***************************************************************************)
(* A model of the fepl front end: the tokenizer, the preprocessor (macro   *)
(* expansion, conditional compilation, file inclusion), the Pratt parser   *)
(* and the build command that drives them.                                 *)
(*                                                                         *)
(* Sequences are 1-based here and 0-based in the source: an index i of the *)
(* source is i + 1 in the model, and "not found" (-1 in the source) is 0.  *)
(***************************************************************************)
EXTENDS Integers, Sequences, FiniteSets, TLC

(***************************************************************************)
(* Generic helpers                                                         *)
(***************************************************************************)

Ok(v) == [ok |-> TRUE, val |-> v]

\* A thrown Error: the message template of the source and the values
\* interpolated into it, in order.
Err(msg, args) == [ok |-> FALSE, msg |-> msg, args |-> args]

\* null of the source (MacroDefinition.parameters, parseMacroInvocation), and
\* a value that may be null: a list that is present is Some(list), so that
\* the two can be told apart.
Null == [null |-> TRUE]

Some(v) == [some |-> v]

\* The element of a one-element set.
Only(S) == CHOOSE x \in S : TRUE

\* F applied to the value of v: v is computed once, as an argument of a
\* call is, however often F refers to it.
With(v, F(_)) == Only({F(x) : x \in {v}})

Last(s) == s[Len(s)]

Front(s) == SubSeq(s, 1, Len(s) - 1)

\* Array.prototype.slice(from, to) on 1-based positions from..to-1.
Slice(s, from, to) == SubSeq(s, from, to - 1)

Contains(s, x) == \E k \in 1..Len(s) : s[k] = x

RECURSIVE Flatten(_)
Flatten(ss) == IF ss = <<>> THEN <<>> ELSE Head(ss) \o Flatten(Tail(ss))

RECURSIVE SelectSeqOf(_, _)
\* The subsequence of s of the elements whose index is in the set keep.
SelectSeqOf(s, keep) ==
    IF s = <<>> THEN <<>>
    ELSE LET rest == SelectSeqOf(Front(s), keep)
         IN  IF Len(s) \in keep THEN Append(rest, Last(s)) ELSE rest

(***************************************************************************)
(* Tokens (lexer/tokens.ts).  A token is {kind, value}.  The value of a    *)
(* Preprocessor token is the raw text of the directive line; the model     *)
(* keeps that text as the sequence of its lexemes, blanks included (" "),  *)
(* in the field text.                                                      *)
(***************************************************************************)

Tok(kind, value) == [kind |-> kind, value |-> value]

PTok(text) == [kind |-> "Preprocessor", text |-> text]

EOFToken == Tok("EOF", "")

\* The operator and punctuation lexemes of the tokenizer's pattern list.
PunctKind ==
    [x \in {"(", ")", "[", "]", "{", "}", ",", "+", "-", "*", "/", "=", "==",
            "!=", "<", ">", "?", ":", ";", ".", "=>", "||", "&&", "&", "|",
            "++", "--", "+=", "%", "!", "~", "^", "<<", ">>"} |->
        CASE x = "(" -> "OpenParen"
          [] x = ")" -> "CloseParen"
          [] x = "[" -> "OpenBracket"
          [] x = "]" -> "CloseBracket"
          [] x = "{" -> "OpenCurly"
          [] x = "}" -> "CloseCurly"
          [] x = "," -> "Comma"
          [] x = "+" -> "Plus"
          [] x = "-" -> "Minus"
          [] x = "*" -> "Star"
          [] x = "/" -> "Slash"
          [] x = "=" -> "Assignment"
          [] x = "==" -> "Equals"
          [] x = "!=" -> "NotEquals"
          [] x = "<" -> "Less"
          [] x = ">" -> "Greater"
          [] x = "?" -> "Question"
          [] x = ":" -> "Colon"
          [] x = ";" -> "Semicolon"
          [] x = "." -> "Dot"
          [] x = "=>" -> "Arrow"
          [] x = "||" -> "LogicalOr"
          [] x = "&&" -> "LogicalAnd"
          [] x = "&" -> "Ampersand"
          [] x = "|" -> "Pipe"
          [] x = "++" -> "PlusPlus"
          [] x = "--" -> "MinusMinus"
          [] x = "+=" -> "PlusEquals"
          [] x = "%" -> "Percent"
          [] x = "!" -> "Not"
          [] x = "~" -> "Tilde"
          [] x = "^" -> "Caret"
          [] x = "<<" -> "LeftShift"
          [] x = ">>" -> "RightShift"]

KEYWORDS ==
    [x \in {"enum", "import", "from", "as", "var", "delete", "let", "func",
            "return", "if", "else", "for", "while", "in"} |->
        CASE x = "enum" -> "Enum"
          [] x = "import" -> "Import"
          [] x = "from" -> "From"
          [] x = "as" -> "As"
          [] x = "var" -> "Var"
          [] x = "delete" -> "Delete"
          [] x = "let" -> "Let"
          [] x = "func" -> "Func"
          [] x = "return" -> "Return"
          [] x = "if" -> "If"
          [] x = "else" -> "Else"
          [] x = "for" -> "For"
          [] x = "while" -> "While"
          [] x = "in" -> "In"]

\* The string lexemes of the model's vocabulary.
StringWords == {"\"js\"", "'s'"}

\* The number words of the model's vocabulary (/^\d+(\.\d+)?/).
NumberWords == {"0", "1", "2", "3", "5", "10"}

\* The lexemes of the vocabulary that start with "$": in a text handed to
\* the Tokenizer each starts a Preprocessor token that runs to the end of
\* the line.
DollarWords ==
    {"$fi", "$if", "$elif", "$else", "$define", "$undefine", "$include",
     "${", "$bogus"}

\* The token of one lexeme that is neither blank nor a "$" lexeme: the first
\* pattern of DEFAULT_PATTERNS that matches it.  Every other word of the
\* vocabulary matches /^[a-zA-Z_][a-zA-Z0-9_]*/.
WordToken(w) ==
    IF w \in NumberWords THEN Tok("Number", w)
    ELSE IF w \in StringWords THEN Tok("String", w)
    ELSE IF w \in DOMAIN PunctKind THEN Tok(PunctKind[w], w)
    ELSE IF w \in DOMAIN KEYWORDS THEN Tok(KEYWORDS[w], w)
    ELSE Tok("Identifier", w)

isTrivia(kind) == kind \in {"Newline", "LineComment", "BlockComment"}

\* nextNonTriviaIndex(tokens, from): 0 when there is none.
nextNonTriviaIndex(tokens, from) ==
    LET S == {k \in from..Len(tokens) : ~isTrivia(tokens[k].kind)}
    IN  IF S = {} THEN 0 ELSE CHOOSE k \in S : \A j \in S : k <= j

\* nextDirectiveIndex(tokens, from): Len(tokens) + 1 when there is none.
nextDirectiveIndex(tokens, from) ==
    LET S == {k \in from..Len(tokens) : tokens[k].kind = "Preprocessor"}
    IN  IF S = {} THEN Len(tokens) + 1 ELSE CHOOSE k \in S : \A j \in S : k <= j

(***************************************************************************)
(* Directive text.  A text is a sequence of lexemes; " " is a run of       *)
(* blanks.  Two lexemes that follow each other without a blank are         *)
(* adjacent in the line, so the inputs never put two lexemes side by side  *)
(* that the tokenizer would read as one ("=" "=", "A" "1").                *)
(***************************************************************************)

RECURSIVE TrimStart(_)
TrimStart(text) ==
    IF text # <<>> /\ Head(text) = " " THEN TrimStart(Tail(text)) ELSE text

RECURSIVE TrimEnd(_)
TrimEnd(text) ==
    IF text # <<>> /\ Last(text) = " " THEN TrimEnd(Front(text)) ELSE text

\* String.prototype.trim
Trim(text) == With(TrimStart(text), TrimEnd)

\* /^[A-Za-z_][A-Za-z0-9_]*$/ on one lexeme of the vocabulary.
IsIdentWord(w) ==
    /\ w # " "
    /\ w \notin NumberWords
    /\ w \notin DOMAIN PunctKind
    /\ w \notin DollarWords
    /\ w \notin {"//", "#", "/", "..", "a.feph", "b.feph", "c.feph", "h.feph",
                 "m.fepl", "none.feph"}

\* The lexeme that starts a line comment (/^\/\/[^\n]*/).
CommentWord == "//"

\* The index of the first lexeme of a text that starts a token running to
\* the end of the line (a "$" lexeme or a line comment), or 0.
FirstDollar(text) ==
    LET S == {k \in 1..Len(text) : text[k] \in DollarWords \cup {CommentWord}}
    IN  IF S = {} THEN 0 ELSE CHOOSE k \in S : \A j \in S : k <= j

\* new Tokenizer(text).tokenize().slice(0, -1) for a one-line text: blanks
\* are skipped, a "$" lexeme starts a Preprocessor token and "//" a
\* LineComment token that take the rest of the line, every other lexeme is
\* one token.
TokenizeText(text) ==
    LET d == FirstDollar(text)
        plain == IF d = 0 THEN text ELSE SubSeq(text, 1, d - 1)
        words == SelectSeq(plain, LAMBDA w : w # " ")
        toks == [k \in 1..Len(words) |-> WordToken(words[k])]
    IN  IF d = 0 THEN toks
        ELSE IF text[d] = CommentWord THEN Append(toks, Tok("LineComment", CommentWord))
        ELSE Append(toks, PTok(SubSeq(text, d, Len(text))))

tokenizeMacroValue(value) ==
    SelectSeq(TokenizeText(value),
              LAMBDA t : t.kind # "Newline" /\ t.kind # "Preprocessor")

\* String.prototype.indexOf for one lexeme: 0 when absent.
IndexOf(text, w) ==
    LET S == {k \in 1..Len(text) : text[k] = w}
    IN  IF S = {} THEN 0 ELSE CHOOSE k \in S : \A j \in S : k <= j

RECURSIVE SplitOn(_, _)
\* String.prototype.split(w): the pieces of text between the lexemes w.
SplitOn(text, w) ==
    LET k == IndexOf(text, w)
    IN  IF k = 0 THEN <<text>>
        ELSE <<SubSeq(text, 1, k - 1)>> \o SplitOn(SubSeq(text, k + 1, Len(text)), w)

\* A parameter passes /^[A-Za-z_][A-Za-z0-9_]*$/ when it is one identifier
\* lexeme.
ValidParameter(part) == Len(part) = 1 /\ IsIdentWord(part[1])

FirstBadParameter(parameters) ==
    LET S == {k \in 1..Len(parameters) :
                 \/ ~ValidParameter(parameters[k])
                 \/ \E j \in 1..(k - 1) : parameters[j] = parameters[k]}
    IN  IF S = {} THEN 0 ELSE CHOOSE k \in S : \A j \in S : k <= j

\* The define that the parameter list `parts` and the value give.
DefineWithParameters(name, parts, value, bad) ==
    IF bad # 0 /\ ~ValidParameter(parts[bad])
    THEN Err("$define '%' has invalid parameter '%'.", <<name, parts[bad]>>)
    ELSE IF bad # 0
    THEN Err("$define '%' has duplicate parameter '%'.", <<name, parts[bad]>>)
    ELSE Ok([name |-> name,
             parameters |-> Some([k \in 1..Len(parts) |-> parts[k][1]]),
             value |-> value])

\* rawParameters.split(",").map(part => part.trim()), [] for the empty text.
SplitParameters(rawParameters) ==
    IF rawParameters = <<>> THEN <<>>
    ELSE With(SplitOn(rawParameters, ","),
              LAMBDA parts : [k \in 1..Len(parts) |-> Trim(parts[k])])

CheckParameters(name, parts, value) ==
    With(FirstBadParameter(parts),
         LAMBDA bad : DefineWithParameters(name, parts, value, bad))

\* The function-like define whose text after the name is rest = "(" ...
DefineFunctionLike(name, rest, closeParenIndex) ==
    IF closeParenIndex = 0
    THEN Err("$define '%' has an unterminated parameter list.", <<name>>)
    ELSE With(SplitParameters(Trim(SubSeq(rest, 2, closeParenIndex - 1))),
              LAMBDA parts :
                  CheckParameters(name, parts,
                                  Trim(SubSeq(rest, closeParenIndex + 1, Len(rest)))))

parseDefineArguments(arg) ==
    IF arg = <<>> \/ ~IsIdentWord(arg[1])
    THEN Err("$define requires a valid macro name, got '%'.", <<arg>>)
    ELSE IF Len(arg) > 1 /\ arg[2] = "("
    THEN With(IndexOf(Tail(arg), ")"),
              LAMBDA closeParenIndex :
                  DefineFunctionLike(arg[1], Tail(arg), closeParenIndex))
    ELSE Ok([name |-> arg[1], parameters |-> Null, value |-> Trim(Tail(arg))])

\* The text between a leading "$if" / "$elif" and the closing "${" of a
\* trimmed directive line, when the line has that shape
\* (/^\$if\s*(.*?)\s*\$\{\s*$/); Null when it has not.
ConditionOf(raw, word) ==
    IF Len(raw) >= 2 /\ raw[1] = word /\ Last(raw) = "${"
    THEN Some(Trim(SubSeq(raw, 2, Len(raw) - 1)))
    ELSE Null

\* /^\$else\s+\$\{\s*$/
IsElse(raw) ==
    /\ Len(raw) >= 3
    /\ raw[1] = "$else"
    /\ Last(raw) = "${"
    /\ \A k \in 2..(Len(raw) - 1) : raw[k] = " "

\* The directive of a $define whose arguments have been parsed.
DefineDirective(parsedDefine) ==
    IF ~parsedDefine.ok THEN parsedDefine
    ELSE IF parsedDefine.val.value = <<>>
    THEN Err("$define '%' requires a value.", <<parsedDefine.val.name>>)
    ELSE Ok([kind |-> "define",
             name |-> parsedDefine.val.name,
             value |-> parsedDefine.val.value,
             parameters |-> parsedDefine.val.parameters])

\* The directive of the line "$name arg".
NamedDirective(name, arg) ==
    IF name = "$include"
    THEN IF arg = <<>> THEN Err("$include requires a file path.", <<>>)
         ELSE Ok([kind |-> "include", source |-> arg])
    ELSE IF name = "$define" THEN With(parseDefineArguments(arg), DefineDirective)
    ELSE IF name = "$undefine"
    THEN IF Len(arg) # 1 \/ ~IsIdentWord(arg[1])
         THEN Err("$undefine requires a valid macro name, got '%'.", <<arg>>)
         ELSE Ok([kind |-> "undefine", name |-> arg[1]])
    ELSE Err("Unknown preprocessor directive '%'.", <<name>>)

\* /^\$(\w+)(?:\s+(.+))?$/
MatchesDirective(raw) ==
    /\ raw # <<>>
    /\ raw[1] \in DollarWords \ {"${"}
    /\ Len(raw) > 1 => raw[2] = " "

\* parseDirectiveToken on the trimmed text of the token.
ParseRaw(raw, ifMatch, elifMatch) ==
    IF raw = <<"$fi">> THEN Ok([kind |-> "ifEnd"])
    ELSE IF ifMatch # Null
    THEN IF ifMatch.some = <<>>
         THEN Err("$if requires a condition before '${'.", <<>>)
         ELSE Ok([kind |-> "if", condition |-> ifMatch.some])
    ELSE IF elifMatch # Null
    THEN IF elifMatch.some = <<>>
         THEN Err("$elif requires a condition before '${'.", <<>>)
         ELSE Ok([kind |-> "elif", condition |-> elifMatch.some])
    ELSE IF IsElse(raw) THEN Ok([kind |-> "else"])
    ELSE IF ~MatchesDirective(raw)
    THEN Err("Invalid preprocessor directive '%'.", <<raw>>)
    ELSE With(Trim(Tail(raw)), LAMBDA arg : NamedDirective(raw[1], arg))

ParseTrimmed(raw) == ParseRaw(raw, ConditionOf(raw, "$if"), ConditionOf(raw, "$elif"))

parseDirectiveToken(token) == With(Trim(token.text), ParseTrimmed)

(***************************************************************************)
(* Macro expansion (preprocessor.ts, expandTokens and                      *)
(* parseMacroInvocation).  A MacroMap is a function from the defined names *)
(* to MacroDefinitions {parameters, replacement}.                          *)
(***************************************************************************)

\* The depth bound of expandTokens: `if (depth > 24)`.
MaxDepth == 24

MacroDef(parameters, replacement) ==
    [parameters |-> parameters, replacement |-> replacement]

\* Map.prototype.set / delete
MapSet(m, k, v) == [x \in DOMAIN m \cup {k} |-> IF x = k THEN v ELSE m[x]]

MapDelete(m, k) == [x \in DOMAIN m \ {k} |-> m[x]]

EmptyMap == [x \in {} |-> Null]

cloneTokens(tokens) == [k \in 1..Len(tokens) |-> tokens[k]]

\* The variables of the loop of parseMacroInvocation.
ScanState ==
    [args |-> <<>>, currentArg |-> <<>>, depthParen |-> 0, depthBracket |-> 0,
     depthCurly |-> 0, sawComma |-> FALSE]

\* currentArg.push(token)
PushArg(s, token) == [s EXCEPT !.currentArg = Append(s.currentArg, token)]

\* The loop state after the token, with the commas split on the depth of
\* the parentheses alone.
ScanTokenParenOnly(s, token) ==
    CASE token.kind = "OpenParen" ->
           [PushArg(s, token) EXCEPT !.depthParen = s.depthParen + 1]
      [] token.kind = "CloseParen" ->
           [PushArg(s, token) EXCEPT !.depthParen = s.depthParen - 1]
      [] token.kind = "Comma" /\ s.depthParen = 0 ->
           [s EXCEPT !.args = Append(s.args, s.currentArg),
                     !.currentArg = <<>>,
                     !.sawComma = TRUE]
      [] OTHER -> PushArg(s, token)

\* The loop state after the token at a position that does not end the
\* argument list.
ScanToken(s, token) ==
    CASE token.kind = "OpenParen" ->
           [PushArg(s, token) EXCEPT !.depthParen = s.depthParen + 1]
      [] token.kind = "CloseParen" ->
           [PushArg(s, token) EXCEPT !.depthParen = s.depthParen - 1]
      [] token.kind = "OpenBracket" ->
           [PushArg(s, token) EXCEPT !.depthBracket = s.depthBracket + 1]
      [] token.kind = "CloseBracket" ->
           [PushArg(s, token) EXCEPT
                !.depthBracket = IF s.depthBracket > 0
                                 THEN s.depthBracket - 1
                                 ELSE s.depthBracket]
      [] token.kind = "OpenCurly" ->
           [PushArg(s, token) EXCEPT !.depthCurly = s.depthCurly + 1]
      [] token.kind = "CloseCurly" ->
           [PushArg(s, token) EXCEPT
                !.depthCurly = IF s.depthCurly > 0
                               THEN s.depthCurly - 1
                               ELSE s.depthCurly]
      [] /\ token.kind = "Comma"
         /\ s.depthParen = 0 /\ s.depthBracket = 0 /\ s.depthCurly = 0 ->
           [s EXCEPT !.args = Append(s.args, s.currentArg),
                     !.currentArg = <<>>,
                     !.sawComma = TRUE]
      [] OTHER -> PushArg(s, token)

\* The ")" that closes the argument list: the arguments collected in s.
CloseInvocation(s, i) ==
    IF s.depthBracket # 0 \/ s.depthCurly # 0
    THEN Err("Unbalanced macro invocation delimiters.", <<>>)
    ELSE Ok([arguments |-> IF s.sawComma \/ Len(s.currentArg) > 0
                           THEN Append(s.args, s.currentArg)
                           ELSE s.args,
             endIndex |-> i])

RECURSIVE ScanInvocation(_, _, _, _)
\* The loop of parseMacroInvocation from index i on, in loop state s; the
\* state after a token is bound to t before the loop goes on.
ScanInvocation(tokens, macroIndex, i, s) ==
    IF i > Len(tokens)
    THEN Err("Unclosed macro invocation for '%'.", <<tokens[macroIndex].value>>)
    ELSE IF tokens[i].kind = "CloseParen" /\ s.depthParen = 0
    THEN CloseInvocation(s, i)
    ELSE Only({ScanInvocation(tokens, macroIndex, i + 1, t) :
                   t \in {ScanToken(s, tokens[i])}})

\* The macro name at macroIndex is followed by "(" at openParenIndex, or by
\* none (0).
InvocationFrom(tokens, macroIndex, openParenIndex) ==
    IF openParenIndex = 0 \/ tokens[openParenIndex].kind # "OpenParen"
    THEN Ok(Null)
    ELSE ScanInvocation(tokens, macroIndex, openParenIndex + 1, ScanState)

\* Ok(Null) when no "(" follows the macro name, Ok({arguments, endIndex})
\* for a closed argument list, an error otherwise.
parseMacroInvocation(tokens, macroIndex) ==
    InvocationFrom(tokens, macroIndex, nextNonTriviaIndex(tokens, macroIndex + 1))

\* A substitution of the first parameter alone.
SubstituteFirstParameter(macro, arguments) ==
    LET parameters == macro.parameters.some
        piece(replacementToken) ==
            IF /\ replacementToken.kind = "Identifier"
               /\ parameters # <<>>
               /\ replacementToken.value = parameters[1]
            THEN cloneTokens(arguments[1])
            ELSE <<replacementToken>>
    IN  Flatten([k \in 1..Len(macro.replacement) |-> piece(macro.replacement[k])])

\* macro.replacement.flatMap(...): each identifier of the replacement that is
\* a parameter name becomes the tokens of its argument.
SubstituteParameters(macro, arguments) ==
    LET parameters == macro.parameters.some
        argumentMap(name) ==
            LET S == {k \in 1..Len(parameters) : parameters[k] = name}
            IN  IF S = {} THEN Null
                ELSE Some(cloneTokens(arguments[CHOOSE k \in S : TRUE]))
        piece(replacementToken) ==
            IF replacementToken.kind # "Identifier" THEN <<replacementToken>>
            ELSE IF argumentMap(replacementToken.value) = Null
            THEN <<replacementToken>>
            ELSE argumentMap(replacementToken.value).some
    IN  Flatten([k \in 1..Len(macro.replacement) |-> piece(macro.replacement[k])])

\* The self-alias test of expandTokens (lines 451-455).
\* No replacement counts as an alias of its own name.
IsSelfAliasNever(macro, token) == FALSE

\* macro.replacement is the one identifier token.value
IsSelfAlias(macro, token) ==
    /\ Len(macro.replacement) = 1
    /\ macro.replacement[1].kind = "Identifier"
    /\ macro.replacement[1].value = token.value

\* A depth check that lets one more level of recursion through.
DepthExceededLate(depth) == depth > MaxDepth + 1

\* `if (depth > 24) throw`
DepthExceeded(depth) == depth > MaxDepth

MacroArityError(name, expected, got) ==
    Err("Macro '%' expects % argument(s), got %.", <<name, expected, got>>)

\* An arity check that lets surplus arguments through.
ArityTooFew(macro, invocation) ==
    Len(invocation.arguments) < Len(macro.parameters.some)

\* `invocation.arguments.length !== macro.parameters.length`
ArityMismatch(macro, invocation) ==
    Len(invocation.arguments) # Len(macro.parameters.some)

RECURSIVE expandTokens(_, _, _)
RECURSIVE ExpandLoop(_, _, _, _, _)

\* The loop goes on at index `next` after the expansion `sub` of a
\* replacement has been pushed, or ends with the error of that expansion.
PushExpansion(tokens, macros, depth, next, expanded, sub) ==
    IF ~sub.ok THEN sub
    ELSE With(expanded \o sub.val,
              LAMBDA pushed : ExpandLoop(tokens, macros, depth, next, pushed))

\* The identifier at index i names the function-like macro `macro`, and
\* parseMacroInvocation has returned `invocation`.
ExpandInvocation(tokens, macros, depth, i, expanded, macro, invocation) ==
    IF ~invocation.ok THEN invocation
    ELSE IF invocation.val = Null
    THEN ExpandLoop(tokens, macros, depth, i + 1, Append(expanded, tokens[i]))
    ELSE IF ArityMismatch(macro, invocation.val)
    THEN MacroArityError(tokens[i].value, Len(macro.parameters.some),
                         Len(invocation.val.arguments))
    ELSE With(expandTokens(cloneTokens(SubstituteParameters(
                               macro, invocation.val.arguments)),
                           macros, depth + 1),
              LAMBDA sub :
                  PushExpansion(tokens, macros, depth, invocation.val.endIndex + 1,
                                expanded, sub))

\* The identifier at index i names the macro `macro`.
ExpandMacro(tokens, macros, depth, i, expanded, macro) ==
    IF macro.parameters = Null
    THEN IF IsSelfAlias(macro, tokens[i])
         THEN ExpandLoop(tokens, macros, depth, i + 1, Append(expanded, tokens[i]))
         ELSE With(expandTokens(cloneTokens(macro.replacement), macros, depth + 1),
                   LAMBDA sub :
                       PushExpansion(tokens, macros, depth, i + 1, expanded, sub))
    ELSE With(parseMacroInvocation(tokens, i),
              LAMBDA invocation :
                  ExpandInvocation(tokens, macros, depth, i, expanded, macro,
                                   invocation))

\* The for loop of expandTokens from index i on, with the tokens pushed so
\* far.
ExpandLoop(tokens, macros, depth, i, expanded) ==
    IF i > Len(tokens) THEN Ok(expanded)
    ELSE IF tokens[i].kind # "Identifier" \/ tokens[i].value \notin DOMAIN macros
    THEN With(Append(expanded, tokens[i]),
              LAMBDA pushed : ExpandLoop(tokens, macros, depth, i + 1, pushed))
    ELSE ExpandMacro(tokens, macros, depth, i, expanded, macros[tokens[i].value])

expandTokens(tokens, macros, depth) ==
    IF DepthExceeded(depth)
    THEN Err("Macro expansion exceeded maximum depth.", <<>>)
    ELSE ExpandLoop(tokens, macros, depth, 1, <<>>)

(***************************************************************************)
(* Strings.  stringifyTokens joins token values with no separator, so the  *)
(* model compares the joined values character by character.                *)
(***************************************************************************)

\* The characters of the words of the vocabulary that have more than one.
WordChars ==
    [w \in {"10", "true", "false", "null", "undefined", "nu", "ll", "fal",
            "se", "test", "prod", "==", "!=", "=>", "||", "&&", "++", "--",
            "+=", "<<", ">>", "FALSE", "'s'", "\"js\"",
            "<backtick>t${a}<backtick>"} |->
        CASE w = "10" -> <<"1", "0">>
          [] w = "true" -> <<"t", "r", "u", "e">>
          [] w = "false" -> <<"f", "a", "l", "s", "e">>
          [] w = "null" -> <<"n", "u", "l", "l">>
          [] w = "undefined" -> <<"u", "n", "d", "e", "f", "i", "n", "e", "d">>
          [] w = "nu" -> <<"n", "u">>
          [] w = "ll" -> <<"l", "l">>
          [] w = "fal" -> <<"f", "a", "l">>
          [] w = "se" -> <<"s", "e">>
          [] w = "test" -> <<"t", "e", "s", "t">>
          [] w = "prod" -> <<"p", "r", "o", "d">>
          [] w = "==" -> <<"=", "=">>
          [] w = "!=" -> <<"!", "=">>
          [] w = "=>" -> <<"=", ">">>
          [] w = "||" -> <<"|", "|">>
          [] w = "&&" -> <<"&", "&">>
          [] w = "++" -> <<"+", "+">>
          [] w = "--" -> <<"-", "-">>
          [] w = "+=" -> <<"+", "=">>
          [] w = "<<" -> <<"<", "<">>
          [] w = ">>" -> <<">", ">">>
          [] w = "FALSE" -> <<"F", "A", "L", "S", "E">>
          [] w = "'s'" -> <<"'", "s", "'">>
          [] w = "\"js\"" -> <<"\"", "j", "s", "\"">>
          [] w = "<backtick>t${a}<backtick>" ->
                 <<"<backtick>", "t", "$", "{", "a", "}", "<backtick>">>]

\* Every other word of the vocabulary is one character.
Chars(w) == IF w \in DOMAIN WordChars THEN WordChars[w] ELSE <<w>>

\* String.prototype.toLowerCase on one character of the vocabulary.
LowerChar(c) ==
    CASE c = "A" -> "a"
      [] c = "B" -> "b"
      [] c = "C" -> "c"
      [] c = "E" -> "e"
      [] c = "F" -> "f"
      [] c = "G" -> "g"
      [] c = "L" -> "l"
      [] c = "S" -> "s"
      [] OTHER -> c

toLowerCase(str) == [k \in 1..Len(str) |-> LowerChar(str[k])]

\* tokens.map(t => t.value).join("").trim(): token values hold no blank.
stringifyTokens(tokens) ==
    Flatten([k \in 1..Len(tokens) |-> Chars(tokens[k].value)])

(***************************************************************************)
(* Conditional compilation (preprocessor.ts, evaluateIfCondition and       *)
(* collectIfChain)                                                         *)
(***************************************************************************)

\* The strings that evaluateIfCondition takes as false.
FalsyTexts ==
    {<<>>, Chars("0"), Chars("false"), Chars("null"), Chars("undefined")}

\* No "==" or "!=" is found.
FindEqIndexNone(tokens) == 0

\* tokens.findIndex(t => Equals or NotEquals): 0 when there is none.
FindEqIndex(tokens) ==
    LET S == {k \in 1..Len(tokens) : tokens[k].kind \in {"Equals", "NotEquals"}}
    IN  IF S = {} THEN 0 ELSE CHOOSE k \in S : \A j \in S : k <= j

\* The text of the condition is compared as it is written, upper case
\* included.
EvaluateAtCaseSensitive(tokens, macros, eqIndex) ==
    IF Len(tokens) = 0 THEN FALSE
    ELSE IF eqIndex > 1 /\ eqIndex < Len(tokens)
    THEN IF tokens[eqIndex].kind = "Equals"
         THEN stringifyTokens(SubSeq(tokens, 1, eqIndex - 1))
                  = stringifyTokens(SubSeq(tokens, eqIndex + 1, Len(tokens)))
         ELSE stringifyTokens(SubSeq(tokens, 1, eqIndex - 1))
                  # stringifyTokens(SubSeq(tokens, eqIndex + 1, Len(tokens)))
    ELSE IF Len(tokens) = 1 /\ tokens[1].kind = "Identifier"
    THEN IF tokens[1].value = "true" THEN TRUE
         ELSE IF tokens[1].value = "false" THEN FALSE
         ELSE tokens[1].value \in DOMAIN macros
    ELSE stringifyTokens(tokens) \notin FalsyTexts

\* The value of the condition whose expanded tokens, trivia left out, are
\* `tokens`, and whose first "==" or "!=" is at eqIndex.
EvaluateAt(tokens, macros, eqIndex) ==
    IF Len(tokens) = 0 THEN FALSE
    ELSE IF eqIndex > 1 /\ eqIndex < Len(tokens)
    THEN IF tokens[eqIndex].kind = "Equals"
         THEN stringifyTokens(SubSeq(tokens, 1, eqIndex - 1))
                  = stringifyTokens(SubSeq(tokens, eqIndex + 1, Len(tokens)))
         ELSE stringifyTokens(SubSeq(tokens, 1, eqIndex - 1))
                  # stringifyTokens(SubSeq(tokens, eqIndex + 1, Len(tokens)))
    ELSE IF Len(tokens) = 1 /\ tokens[1].kind = "Identifier"
    THEN IF tokens[1].value = "true" THEN TRUE
         ELSE IF tokens[1].value = "false" THEN FALSE
         ELSE tokens[1].value \in DOMAIN macros
    ELSE toLowerCase(stringifyTokens(tokens)) \notin FalsyTexts

EvaluateTokens(tokens, macros) ==
    With(FindEqIndex(tokens), LAMBDA eqIndex : EvaluateAt(tokens, macros, eqIndex))

EvaluateExpanded(exp, macros) ==
    IF ~exp.ok THEN exp
    ELSE Ok(With(SelectSeq(exp.val, LAMBDA t : ~isTrivia(t.kind)),
                 LAMBDA tokens : EvaluateTokens(tokens, macros)))

\* Ok(TRUE), Ok(FALSE), or the error of the condition's macro expansion.
evaluateIfCondition(condition, macros) ==
    With(expandTokens(tokenizeMacroValue(condition), macros, 0),
         LAMBDA exp : EvaluateExpanded(exp, macros))

IfBranch(directive, bodyTokens) ==
    [directive |-> directive, bodyTokens |-> bodyTokens]

\* The variables of the loop of collectIfChain.
ChainState(rootIf) ==
    [branches |-> <<>>, currentDirective |-> rootIf, currentBody |-> <<>>,
     nestedIfDepth |-> 0, seenElse |-> FALSE]

\* The loop of collectIfChain goes on at index i with the variables s.
Continue(i, s) == [ok |-> TRUE, next |-> [i |-> i, s |-> s]]

Continues(r) == r.ok /\ "next" \in DOMAIN r

\* The token at index i is pushed onto the body of the current branch.
CollectBody(tokens, i, s) ==
    Continue(i + 1, [s EXCEPT !.currentBody = Append(s.currentBody, tokens[i])])

\* The nested $if is not counted.
CollectDirectiveUncounted(tokens, i, s, directive) ==
    IF ~directive.ok THEN directive
    ELSE IF directive.val.kind = "ifEnd"
    THEN IF s.nestedIfDepth = 0
         THEN Err("'$fi' encountered before closing '}' for '$if' branch.", <<>>)
         ELSE CollectBody(tokens, i, [s EXCEPT !.nestedIfDepth = s.nestedIfDepth - 1])
    ELSE CollectBody(tokens, i, s)

\* The token at index i is the Preprocessor token of `directive`.
CollectDirective(tokens, i, s, directive) ==
    IF ~directive.ok THEN directive
    ELSE IF directive.val.kind = "if"
    THEN CollectBody(tokens, i, [s EXCEPT !.nestedIfDepth = s.nestedIfDepth + 1])
    ELSE IF directive.val.kind = "ifEnd"
    THEN IF s.nestedIfDepth = 0
         THEN Err("'$fi' encountered before closing '}' for '$if' branch.", <<>>)
         ELSE CollectBody(tokens, i, [s EXCEPT !.nestedIfDepth = s.nestedIfDepth - 1])
    ELSE CollectBody(tokens, i, s)

\* The token at index i is not the "}" that ends a branch.
CollectToken(tokens, i, s) ==
    IF tokens[i].kind # "Preprocessor" THEN CollectBody(tokens, i, s)
    ELSE With(parseDirectiveToken(tokens[i]),
              LAMBDA directive : CollectDirective(tokens, i, s, directive))

\* branches.push({directive: currentDirective, bodyTokens: currentBody})
PushBranch(s) == Append(s.branches, IfBranch(s.currentDirective, s.currentBody))

\* The token at index i is a "}" at nesting depth 0 and the next token that
\* is no trivia, at nextIndex, is the Preprocessor token of nextDirective.
CollectBoundary(tokens, i, s, nextIndex, nextDirective) ==
    IF ~nextDirective.ok THEN nextDirective
    ELSE IF nextDirective.val.kind = "ifEnd"
    THEN Ok([branches |-> PushBranch(s), endIndex |-> nextIndex])
    ELSE IF nextDirective.val.kind \in {"elif", "else"}
    THEN IF s.seenElse THEN Err("'$elif' cannot appear after '$else'.", <<>>)
         ELSE Continue(nextIndex + 1,
                       [s EXCEPT !.branches = PushBranch(s),
                                 !.currentDirective = nextDirective.val,
                                 !.currentBody = <<>>,
                                 !.seenElse = nextDirective.val.kind = "else"])
    ELSE CollectToken(tokens, i, s)

CollectAt(tokens, i, s, nextIndex) ==
    IF /\ s.nestedIfDepth = 0
       /\ tokens[i].kind = "CloseCurly"
       /\ nextIndex # 0
       /\ tokens[nextIndex].kind = "Preprocessor"
    THEN With(parseDirectiveToken(tokens[nextIndex]),
              LAMBDA nextDirective :
                  CollectBoundary(tokens, i, s, nextIndex, nextDirective))
    ELSE CollectToken(tokens, i, s)

\* One pass through the body of the for loop of collectIfChain, at index
\* i: the chain that is returned, the error that is thrown, or Continue.
CollectStep(tokens, i, s) ==
    With(nextNonTriviaIndex(tokens, i + 1),
         LAMBDA nextIndex : CollectAt(tokens, i, s, nextIndex))

\* The test of the for loop of collectIfChain and one pass through its
\* body, once the loop has come to r; a loop that has left stays as it is.
CollectPass(tokens, r) ==
    IF ~Continues(r) THEN r
    ELSE IF r.next.i > Len(tokens) THEN Err("Missing '$fi' for '$if' block.", <<>>)
    ELSE CollectStep(tokens, r.next.i, r.next.s)

RECURSIVE CollectLoop(_, _, _)
\* The for loop of collectIfChain from r on, for n passes.
CollectLoop(tokens, r, n) ==
    IF ~Continues(r) THEN r
    ELSE IF n <= 1 THEN CollectPass(tokens, r)
    ELSE With(CollectLoop(tokens, r, n \div 2),
              LAMBDA half : CollectLoop(tokens, half, n - n \div 2))

\* The index grows with every pass, so the loop leaves within
\* Len(tokens) - startIndex + 2 of them.
collectIfChain(tokens, startIndex, rootIf) ==
    CollectLoop(tokens, Continue(startIndex, ChainState(rootIf)),
                Len(tokens) - startIndex + 2)

RECURSIVE FindBranch(_, _, _)

\* The condition of branch k has the value c.
FindAfter(branches, k, macros, c) ==
    IF ~c.ok THEN c
    ELSE IF c.val THEN Ok(k)
    ELSE FindBranch(branches, k + 1, macros)

\* branches.find(...): the conditions are evaluated in order up to the first
\* branch that is found; a condition that throws ends the search.  The
\* result is Ok(index of the chosen branch, 0 for none) or the error.
FindBranch(branches, k, macros) ==
    IF k > Len(branches) THEN Ok(0)
    ELSE IF branches[k].directive.kind = "else" THEN Ok(k)
    ELSE With(evaluateIfCondition(branches[k].directive.condition, macros),
              LAMBDA c : FindAfter(branches, k, macros, c))

(***************************************************************************)
(* Includes (preprocessor.ts, assertDirectiveOnlyHeader; node:path)        *)
(***************************************************************************)

RECURSIVE HeaderScan(_, _)

\* The token at index i is a "}" that a Preprocessor token follows.
HeaderBoundary(tokens, i, nextDirective) ==
    IF ~nextDirective.ok THEN nextDirective
    ELSE IF nextDirective.val.kind \in {"elif", "else", "ifEnd"}
    THEN Ok(0)
    ELSE Ok(i)

\* What the loop of assertDirectiveOnlyHeader does with the token at index
\* i: Ok(0) when it goes on, Ok(i) when it rejects the token, or the error
\* of a directive that does not parse.
HeaderAt(tokens, i, nextIndex) ==
    IF tokens[i].kind = "Preprocessor" \/ isTrivia(tokens[i].kind)
    THEN Ok(0)
    ELSE IF /\ tokens[i].kind = "CloseCurly"
            /\ nextIndex # 0
            /\ tokens[nextIndex].kind = "Preprocessor"
    THEN With(parseDirectiveToken(tokens[nextIndex]),
              LAMBDA nextDirective : HeaderBoundary(tokens, i, nextDirective))
    ELSE Ok(i)

\* The loop stops at index i.
HeaderStops(tokens, i) ==
    With(HeaderAt(tokens, i, nextNonTriviaIndex(tokens, i + 1)),
         LAMBDA r : ~r.ok \/ r.val # 0)

\* The first index, from i on, of tokens that assertDirectiveOnlyHeader
\* rejects, as Ok(index), Ok(0) when there is none, or the error of a
\* directive that does not parse.
HeaderScan(tokens, i) ==
    LET S == {k \in i..Len(tokens) : HeaderStops(tokens, k)}
    IN  IF S = {} THEN Ok(0)
        ELSE With(CHOOSE k \in S : \A j \in S : k <= j,
                  LAMBDA k : HeaderAt(tokens, k, nextNonTriviaIndex(tokens, k + 1)))

HeaderChecked(scan, includePath) ==
    IF ~scan.ok THEN scan
    ELSE IF scan.val # 0
    THEN Err("Included header '%' can only contain preprocessor directives.",
             <<includePath>>)
    ELSE Ok(TRUE)

\* A check that lets every header through.
assertNothing(tokens, includePath) == Ok(TRUE)

assertDirectiveOnlyHeader(tokens, includePath) ==
    With(HeaderScan(tokens, 1), LAMBDA scan : HeaderChecked(scan, includePath))

\* A path is the sequence of its segments from the root.  The source of an
\* $include is a text whose lexemes are segments and "/".
RECURSIVE NormalizeOnto(_, _)
NormalizeOnto(base, pieces) ==
    IF pieces = <<>> THEN base
    ELSE LET piece == Head(pieces)
         IN  IF piece = <<>> \/ piece = <<".">>
             THEN NormalizeOnto(base, Tail(pieces))
             ELSE IF piece = <<"..">>
             THEN NormalizeOnto(IF base = <<>> THEN base ELSE Front(base), Tail(pieces))
             ELSE NormalizeOnto(Append(base, piece[1]), Tail(pieces))

\* path.resolve(baseDir, source)
PathResolve(baseDir, source) ==
    With(SplitOn(source, "/"),
         LAMBDA pieces :
             NormalizeOnto(IF source[1] = "/" THEN <<>> ELSE baseDir, pieces))

\* path.dirname(path)
PathDirname(path) == IF path = <<>> THEN path ELSE Front(path)

(***************************************************************************)
(* Source files.  A file is the sequence of its lines, each a text; the    *)
(* Tokenizer turns it into tokens, with a Newline token at a line end      *)
(* whose last token that is no comment can end a statement.                *)
(***************************************************************************)

STMT_ENDERS ==
    {"Number", "String", "TemplateLiteral", "Identifier", "CloseParen",
     "CloseBracket", "CloseCurly", "PlusPlus", "MinusMinus", "Return"}

COMMENT_TOKENS == {"LineComment", "BlockComment"}

\* Tokenizer.lastNonCommentToken on a token list: Null when there is none.
lastNonCommentToken(tokens) ==
    LET S == {k \in 1..Len(tokens) : tokens[k].kind \notin COMMENT_TOKENS}
    IN  IF S = {} THEN Null ELSE tokens[CHOOSE k \in S : \A j \in S : j <= k]

\* A newline handler that looks at no statement ender.
AfterNewlineAlways(tokens) ==
    IF lastNonCommentToken(tokens) # Null
    THEN Append(tokens, Tok("Newline", "\n"))
    ELSE tokens

\* The handler of /^\n+/: the tokens after a line end.
AfterNewline(tokens) ==
    LET prev == lastNonCommentToken(tokens)
    IN  IF prev # Null /\ prev.kind \in STMT_ENDERS
        THEN Append(tokens, Tok("Newline", "\n"))
        ELSE tokens

\* A character no pattern of the tokenizer matches.
BadChar == "#"

\* The tokenizer on line k, with `tokens` pushed so far.
TokenizeLine(lines, k, tokens) ==
    IF k > Len(lines) THEN Ok(Append(tokens, EOFToken))
    ELSE IF Contains(lines[k], BadChar) /\
            (FirstDollar(lines[k]) = 0 \/ IndexOf(lines[k], BadChar) < FirstDollar(lines[k]))
    THEN Err("Unexpected character '%' at position %", <<BadChar>>)
    ELSE Continue(k + 1,
                  IF k < Len(lines)
                  THEN With(tokens \o TokenizeText(lines[k]), AfterNewline)
                  ELSE tokens \o TokenizeText(lines[k]))

RECURSIVE TokenizeLinesFrom(_, _, _)
\* The tokenizer from r on, for n lines.
TokenizeLinesFrom(lines, r, n) ==
    IF ~Continues(r) THEN r
    ELSE IF n <= 1 THEN TokenizeLine(lines, r.next.i, r.next.s)
    ELSE With(TokenizeLinesFrom(lines, r, n \div 2),
              LAMBDA half : TokenizeLinesFrom(lines, half, n - n \div 2))

\* new Tokenizer(source).tokenize() for the source whose lines, joined by
\* "\n", are `lines`.
TokenizeLines(lines) == TokenizeLinesFrom(lines, Continue(1, <<>>), Len(lines) + 1)

(***************************************************************************)
(* One preprocessTokens call (preprocessor.ts, preprocessTokens and        *)
(* processTokenStream).  The state of a call is a record st:               *)
(*   status      "new", "running", "reading" (awaiting readFile),          *)
(*               "returned" (the outermost processTokenStream resolved),   *)
(*               "done", "failed"                                          *)
(*   frames      the active processTokenStream calls, outermost first,     *)
(*               each {tokens, i, baseDir, includeStack, emitOutput}; the  *)
(*               i of a frame that awaits an inner call is the index at    *)
(*               which its loop goes on                                    *)
(*   macros, directives, output     the objects the ProcessContext shares  *)
(*   pending     the path given to the readFile that is awaited            *)
(*   reads       the paths given to readFile so far                        *)
(*   eof, result, error                                                    *)
(***************************************************************************)

Frame(tokens, baseDir, includeStack, emitOutput) ==
    [tokens |-> tokens, i |-> 1, baseDir |-> baseDir,
     includeStack |-> includeStack, emitOutput |-> emitOutput]

\* A rejected promise: the error leaves every processTokenStream on the
\* stack and preprocessTokens itself.
Fail(st, e) == [st EXCEPT !.status = "failed", !.error = e, !.frames = <<>>]

Top(st) == Last(st.frames)

SetTop(st, frame) == [st EXCEPT !.frames[Len(st.frames)] = frame]

RECURSIVE BuildMacrosFrom(_, _, _)
BuildMacrosFrom(constants, k, macros) ==
    IF k > Len(constants) THEN Ok(macros)
    ELSE IF ~IsIdentWord(constants[k][1])
    THEN Err("Invalid global constant name '%'.", <<constants[k][1]>>)
    ELSE BuildMacrosFrom(constants, k + 1,
                         MapSet(macros, constants[k][1],
                                MacroDef(Null, tokenizeMacroValue(constants[k][2]))))

\* globalConstants is the list of the [name, value] entries of the object.
buildInitialMacros(constants) == BuildMacrosFrom(constants, 1, EmptyMap)

\* The call before it has run: the arguments of preprocessTokens.
NewCall(tokens, options) ==
    [status |-> "new", tokens |-> tokens, options |-> options, frames |-> <<>>,
     macros |-> EmptyMap, directives |-> <<>>, output |-> <<>>,
     pending |-> Null, reads |-> <<>>, eof |-> Null, result |-> Null,
     error |-> Null]

StartWith(st, macros) ==
    IF ~macros.ok THEN Fail(st, macros)
    ELSE [st EXCEPT !.status = "running",
                    !.eof = IF Len(st.tokens) > 0 THEN Last(st.tokens) ELSE EOFToken,
                    !.macros = macros.val,
                    !.directives = <<>>,
                    !.output = <<>>,
                    !.frames = <<Frame(IF Len(st.tokens) > 0 THEN Front(st.tokens)
                                       ELSE <<>>,
                                       st.options.baseDir, <<>>, TRUE)>>]

\* preprocessTokens with the constants of buildCommand, whatever the
\* options hold.
DoStartWithBackend(st) ==
    StartWith(st, buildInitialMacros(<< <<"__BACKEND__", <<"\"js\"">> >> >>))

\* preprocessTokens up to its call of processTokenStream.
DoStart(st) == StartWith(st, buildInitialMacros(st.options.globalConstants))

\* What the loop does at a Preprocessor token.
DirectiveOp(directive) ==
    IF ~directive.ok THEN "badDirective"
    ELSE IF directive.val.kind \in {"ifEnd", "elif", "else"} THEN "unexpected"
    ELSE directive.val.kind

\* What the loop of a processTokenStream does next.
FrameOp(f) ==
    IF f.i > Len(f.tokens) THEN "return"
    ELSE IF f.tokens[f.i].kind = "Preprocessor"
    THEN With(parseDirectiveToken(f.tokens[f.i]), DirectiveOp)
    ELSE IF ~f.emitOutput THEN "skip"
    ELSE "chunk"

\* What the call does next.
NextOp(st) == IF st.status # "running" THEN st.status ELSE With(Top(st), FrameOp)

\* The token at which the innermost loop stands, parsed.
CurrentDirective(st) == parseDirectiveToken(Top(st).tokens[Top(st).i])

\* parseDirectiveToken throws.
DoBadDirective(st) == With(CurrentDirective(st), LAMBDA e : Fail(st, e))

UnexpectedError(directive) ==
    IF directive.kind = "ifEnd"
    THEN Err("Unexpected '$fi' without matching '$if'.", <<>>)
    ELSE Err("Unexpected '$%' without matching '$if'.", <<directive.kind>>)

\* A $fi, $elif or $else that no collectIfChain has taken.
DoUnexpected(st) == Fail(st, UnexpectedError(CurrentDirective(st).val))

\* A selection that prefers the $else branch of a chain to every condition.
ChooseElseBranch(branches, macros) ==
    IF \E k \in 1..Len(branches) : branches[k].directive.kind = "else"
    THEN Ok(CHOOSE k \in 1..Len(branches) : branches[k].directive.kind = "else")
    ELSE FindBranch(branches, 1, macros)

\* The index of the branch that processTokenStream selects: `branches.find`.
\* The first branch is taken whatever its condition is.
ChooseFirstBranch(branches, macros) == Ok(1)

ChooseBranch(branches, macros) == FindBranch(branches, 1, macros)

\* The loop of the innermost frame goes on at index i.
Resume(st, i) == SetTop(st, [Top(st) EXCEPT !.i = i])

\* processTokenStream is called on `tokens` with the context of the
\* innermost frame.
EnterBranch(st, tokens) ==
    [st EXCEPT !.frames =
         Append(st.frames,
                Frame(tokens, Top(st).baseDir, Top(st).includeStack,
                      Top(st).emitOutput))]

\* The chain has been collected and its directives pushed.
SelectBranch(st, chain, chosenBranch) ==
    IF ~chosenBranch.ok THEN Fail(st, chosenBranch)
    ELSE IF chosenBranch.val = 0 THEN Resume(st, chain.endIndex + 1)
    ELSE With(Resume(st, chain.endIndex + 1),
              LAMBDA resumed :
                  EnterBranch(resumed, chain.branches[chosenBranch.val].bodyTokens))

PushBranchDirectives(st, branches) ==
    [st EXCEPT !.directives =
         st.directives \o [k \in 1..Len(branches) |-> branches[k].directive]]

EnterChain(st, chain) ==
    IF ~chain.ok THEN Fail(st, chain)
    ELSE With(ChooseBranch(chain.val.branches, st.macros),
              LAMBDA chosenBranch :
                  SelectBranch(PushBranchDirectives(st, chain.val.branches),
                               chain.val, chosenBranch))

DoIf(st) ==
    With(collectIfChain(Top(st).tokens, Top(st).i + 1, CurrentDirective(st).val),
         LAMBDA chain : EnterChain(st, chain))

Advance(st) == Resume(st, Top(st).i + 1)

PushDirective(st, directive) ==
    [st EXCEPT !.directives = Append(st.directives, directive)]

\* A define whose replacement is expanded under the table of the $define
\* before it is stored.
SetMacroExpanded(st, directive) ==
    [st EXCEPT !.macros =
         MapSet(st.macros, directive.name,
                MacroDef(directive.parameters,
                         expandTokens(tokenizeMacroValue(directive.value), st.macros, 0).val))]

SetMacro(st, directive) ==
    [st EXCEPT !.macros =
         MapSet(st.macros, directive.name,
                MacroDef(directive.parameters, tokenizeMacroValue(directive.value)))]

\* A define that is hoisted: the tokens already sent to the output are
\* expanded again under the new table.
ApplyDefineHoisted(st, directive) ==
    Advance([SetMacro(PushDirective(st, directive), directive) EXCEPT !.output =
                 expandTokens(st.output,
                              SetMacro(st, directive).macros, 0).val])

ApplyDefine(st, directive) ==
    With(SetMacro(PushDirective(st, directive), directive), Advance)

DoDefine(st) ==
    With(CurrentDirective(st).val, LAMBDA directive : ApplyDefine(st, directive))

\* An $undefine that is recorded and leaves the table as it is.
ApplyUndefineKept(st, directive) ==
    With(PushDirective(st, directive), Advance)

ApplyUndefine(st, directive) ==
    With([PushDirective(st, directive) EXCEPT !.macros =
              MapDelete(st.macros, directive.name)],
         Advance)

DoUndefine(st) ==
    With(CurrentDirective(st).val, LAMBDA directive : ApplyUndefine(st, directive))

\* A check that looks only at the file that holds the $include.
IsCircularDirect(includeStack, includePath) ==
    includeStack # <<>> /\ Last(includeStack) = includePath

\* `ctx.includeStack.includes(includePath)`
IsCircular(includeStack, includePath) == Contains(includeStack, includePath)

\* The $include of `source`, resolved to includePath, after its directive
\* has been pushed.
RequestInclude(st, source, includePath) ==
    IF IsCircular(Top(st).includeStack, includePath)
    THEN Fail(st, Err("Circular $include detected for '%'.", <<source>>))
    ELSE [st EXCEPT !.status = "reading",
                    !.pending = [path |-> includePath],
                    !.reads = Append(st.reads, includePath)]

ApplyInclude(st, directive) ==
    With(PathResolve(Top(st).baseDir, directive.source),
         LAMBDA includePath :
             RequestInclude(PushDirective(st, directive), directive.source,
                            includePath))

\* An $include up to its `await ctx.readFile(...)`.
DoInclude(st) ==
    With(CurrentDirective(st).val, LAMBDA directive : ApplyInclude(st, directive))

\* The header is processed with the emitOutput of the including stream.
EnterHeaderEmitting(st, includePath, includeTokens, checked) ==
    IF ~checked.ok THEN Fail(st, checked)
    ELSE [st EXCEPT !.status = "running",
                    !.pending = Null,
                    !.frames =
                        Append(Advance(st).frames,
                               Frame(includeTokens, PathDirname(includePath),
                                     Append(Top(st).includeStack, includePath),
                                     Top(st).emitOutput))]

\* processTokenStream is called on the tokens of the header.
EnterHeader(st, includePath, includeTokens, checked) ==
    IF ~checked.ok THEN Fail(st, checked)
    ELSE [st EXCEPT !.status = "running",
                    !.pending = Null,
                    !.frames =
                        Append(Advance(st).frames,
                               Frame(includeTokens, PathDirname(includePath),
                                     Append(Top(st).includeStack, includePath),
                                     FALSE))]

CheckHeader(st, includePath, includeTokens) ==
    With(assertDirectiveOnlyHeader(includeTokens, includePath),
         LAMBDA checked : EnterHeader(st, includePath, includeTokens, checked))

ReadHeader(st, includePath, tokenized) ==
    IF ~tokenized.ok THEN Fail(st, tokenized)
    ELSE CheckHeader(st, includePath, Front(tokenized.val))

\* The $include from the result of readFile on: files maps the paths that
\* exist to the lines of the file.
DoReadDone(st, files) ==
    IF st.pending.path \notin DOMAIN files
    THEN Fail(st, Err("ENOENT: %", <<st.pending.path>>))
    ELSE With(TokenizeLines(files[st.pending.path]),
              LAMBDA tokenized : ReadHeader(st, st.pending.path, tokenized))

\* `if (!ctx.emitOutput) continue`
DoSkip(st) == Advance(st)

PushExpanded(st, chunkEnd, expanded) ==
    IF ~expanded.ok THEN Fail(st, expanded)
    ELSE Resume([st EXCEPT !.output = st.output \o expanded.val], chunkEnd)

ExpandChunk(st, f, chunkEnd) ==
    With(expandTokens(Slice(f.tokens, f.i, chunkEnd), st.macros, 0),
         LAMBDA expanded : PushExpanded(st, chunkEnd, expanded))

DoChunk(st) ==
    With(nextDirectiveIndex(Top(st).tokens, Top(st).i),
         LAMBDA chunkEnd : ExpandChunk(st, Top(st), chunkEnd))

\* A return after which the including stream goes on with the include
\* stack of the stream that has returned.
DoReturnKeepingStack(st) ==
    IF Len(st.frames) = 1
    THEN [st EXCEPT !.frames = <<>>, !.status = "returned"]
    ELSE [st EXCEPT !.frames =
              [Front(st.frames) EXCEPT ![Len(st.frames) - 1].includeStack =
                   Top(st).includeStack]]

\* The innermost processTokenStream resolves.
DoReturn(st) ==
    IF Len(st.frames) = 1
    THEN [st EXCEPT !.frames = <<>>, !.status = "returned"]
    ELSE [st EXCEPT !.frames = Front(st.frames)]

RECURSIVE JoinBlank(_)
\* values.join(" ")
JoinBlank(values) ==
    IF Len(values) <= 1 THEN values
    ELSE <<Head(values), " ">> \o JoinBlank(Tail(values))

\* The `defines` of the result.
DefinesOf(macros) ==
    [name \in DOMAIN macros |->
        Trim(JoinBlank([k \in 1..Len(macros[name].replacement) |->
                            macros[name].replacement[k].value]))]

\* preprocessTokens after its `await processTokenStream(...)`.
DoFinish(st) ==
    [st EXCEPT !.status = "done",
               !.result = [tokens |-> Append(st.output, st.eof),
                           directives |-> st.directives,
                           defines |-> DefinesOf(st.macros)]]

\* The step of a call whose next operation is op.
StepOf(st, files, op) ==
    CASE op = "new" -> DoStart(st)
      [] op = "badDirective" -> DoBadDirective(st)
      [] op = "unexpected" -> DoUnexpected(st)
      [] op = "if" -> DoIf(st)
      [] op = "define" -> DoDefine(st)
      [] op = "undefine" -> DoUndefine(st)
      [] op = "include" -> DoInclude(st)
      [] op = "reading" -> DoReadDone(st, files)
      [] op = "skip" -> DoSkip(st)
      [] op = "chunk" -> DoChunk(st)
      [] op = "return" -> DoReturn(st)
      [] op = "returned" -> DoFinish(st)
      [] OTHER -> st

\* One step of a call, whichever it is.
Step(st, files) == With(NextOp(st), LAMBDA op : StepOf(st, files, op))

Settled(st) == st.status \in {"done", "failed"}

RECURSIVE RunFor(_, _, _)
\* The call run alone for at most `fuel` steps.
RunFor(st, files, fuel) ==
    IF Settled(st) \/ fuel = 0 THEN st
    ELSE IF fuel = 1 THEN Step(st, files)
    ELSE With(RunFor(st, files, fuel \div 2),
              LAMBDA half : RunFor(half, files, fuel - fuel \div 2))

(***************************************************************************)
(* The running system: preprocessTokens calls on one event loop.           *)
(*   calls   the state of each call                                        *)
(*   heap    the objects a call allocates and hands on in its              *)
(*           ProcessContext (macros, directives, output), by reference     *)
(*   turn    the call whose code is running, 0 when the event loop is      *)
(*           free: a call keeps the turn up to its next await              *)
(*   fs      the files that readFile finds                                 *)
(*   expansion, lexer, parser, build                                       *)
(*           the state of one expandTokens call, of one tokenize call, of  *)
(*           one parse and of one buildCommand run, each for the           *)
(*           specification that follows that operation step by step        *)
(***************************************************************************)

VARIABLES calls, heap, turn, fs, expansion, lexer, parser, build

vars == <<calls, heap, turn, fs, expansion, lexer, parser, build>>

ppVars == <<calls, heap, turn, fs>>

\* The state of an operation that a specification does not run.
Idle == [status |-> "idle"]

Calls == {1, 2}

\* The reference of the objects that call p creates at preprocessor.ts
\* 71-73: every call creates its own.
\* One context for every call, as a module-level object would be.
SharedContextRef(p) == 1

ContextRef(p) == p

Objects(st) ==
    [macros |-> st.macros, directives |-> st.directives, output |-> st.output]

\* The state of call p with the objects its context refers to.
Load(p) ==
    [calls[p] EXCEPT !.macros = heap[ContextRef(p)].macros,
                     !.directives = heap[ContextRef(p)].directives,
                     !.output = heap[ContextRef(p)].output]

\* After an await the continuation runs in a later turn of the event loop.
AtAwait(op, st) ==
    op = "return" \/ st.status \in {"reading", "returned", "done", "failed"}

Does(p, op) == turn \in {0, p} /\ With(Load(p), NextOp) = op

Commit(p, op, st) ==
    /\ calls' = [calls EXCEPT ![p] = st]
    /\ heap' = [heap EXCEPT ![ContextRef(p)] = Objects(st)]
    /\ turn' = IF AtAwait(op, st) THEN 0 ELSE p
    /\ UNCHANGED <<fs, expansion, lexer, parser, build>>

Start(p) ==
    /\ Does(p, "new")
    /\ \E st \in {With(Load(p), DoStart)} : Commit(p, "new", st)

BadDirective(p) ==
    /\ Does(p, "badDirective")
    /\ \E st \in {With(Load(p), DoBadDirective)} : Commit(p, "badDirective", st)

Unexpected(p) ==
    /\ Does(p, "unexpected")
    /\ \E st \in {With(Load(p), DoUnexpected)} : Commit(p, "unexpected", st)

IfChain(p) ==
    /\ Does(p, "if")
    /\ \E st \in {With(Load(p), DoIf)} : Commit(p, "if", st)

Define(p) ==
    /\ Does(p, "define")
    /\ \E st \in {With(Load(p), DoDefine)} : Commit(p, "define", st)

Undefine(p) ==
    /\ Does(p, "undefine")
    /\ \E st \in {With(Load(p), DoUndefine)} : Commit(p, "undefine", st)

Include(p) ==
    /\ Does(p, "include")
    /\ \E st \in {With(Load(p), DoInclude)} : Commit(p, "include", st)

ReadDone(p) ==
    /\ Does(p, "reading")
    /\ \E st \in {With(Load(p), LAMBDA call : DoReadDone(call, fs))} :
           Commit(p, "reading", st)

Skip(p) ==
    /\ Does(p, "skip")
    /\ \E st \in {With(Load(p), DoSkip)} : Commit(p, "skip", st)

Chunk(p) ==
    /\ Does(p, "chunk")
    /\ \E st \in {With(Load(p), DoChunk)} : Commit(p, "chunk", st)

Return(p) ==
    /\ Does(p, "return")
    /\ \E st \in {With(Load(p), DoReturn)} : Commit(p, "return", st)

Finish(p) ==
    /\ Does(p, "returned")
    /\ \E st \in {With(Load(p), DoFinish)} : Commit(p, "returned", st)

NextPP ==
    \E p \in Calls :
        \/ Start(p)
        \/ BadDirective(p)
        \/ Unexpected(p)
        \/ IfChain(p)
        \/ Define(p)
        \/ Undefine(p)
        \/ Include(p)
        \/ ReadDone(p)
        \/ Skip(p)
        \/ Chunk(p)
        \/ Return(p)
        \/ Finish(p)

(***************************************************************************)
(* Inputs.  A program is the sequence of its lines; the programs of a      *)
(* family are the concatenations of up to MaxItems of its fragments.       *)
(***************************************************************************)

MaxItems == 3

RECURSIVE Concatenations(_, _)
\* The concatenations of 1..n elements of the set `fragments` of sequences.
Concatenations(fragments, n) ==
    IF n = 0 THEN {}
    ELSE LET shorter == Concatenations(fragments, n - 1)
         IN  fragments \cup {s \o f : s \in shorter, f \in fragments}

\* The files of the include directory.
Files ==
    (<<"src", "h.feph">> :> << <<"$define", " ", "H", " ", "1">>, <<"//">> >>) @@
    (<<"src", "a.feph">> :> << <<"$include", " ", "b.feph">> >>) @@
    (<<"src", "b.feph">> :> << <<"$include", " ", "a.feph">> >>) @@
    (<<"src", "c.feph">> :> << <<"x">> >>)

\* The options buildCommand passes: the directory of the input file and
\* the __BACKEND__ constant, JSON.stringify(backend.id).
Options ==
    [baseDir |-> <<"src">>, globalConstants |-> << <<"__BACKEND__", <<"\"js\"">> >> >>]

\* Programs that between them take every path of processTokenStream.
CorePrograms ==
    { << <<"$include", " ", "h.feph">>,
         <<"$define", " ", "A", " ", "1">>,
         <<"$if", " ", "A", " ", "${">>,
         <<"A">>,
         <<"}">>,
         <<"$fi">>,
         <<"$undefine", " ", "A">> >>,
      << <<"$bogus">> >>,
      << <<"x">>, <<"$fi">> >> }

\* A call that is never made.
Absent == [NewCall(<<EOFToken>>, Options) EXCEPT !.status = "absent"]

NoObjects == [macros |-> EmptyMap, directives |-> <<>>, output |-> <<>>]

\* One call of preprocessTokens on the tokens of a program of `programs`.
InitOne(programs) ==
    /\ expansion = Idle /\ lexer = Idle /\ parser = Idle /\ build = Idle
    /\ fs = Files
    /\ turn = 0
    /\ heap = [r \in Calls |-> NoObjects]
    /\ \E lines \in programs :
           calls = [p \in Calls |->
                       IF p = 1 THEN NewCall(TokenizeLines(lines).val, Options)
                       ELSE Absent]

\* $define, $undefine and uses of the macros A and B.
DefineFragments ==
    { << <<"A">> >>,
      << <<"B">> >>,
      << <<"$define", " ", "A", " ", "1">> >>,
      << <<"$define", " ", "A", " ", "2">> >>,
      << <<"$define", " ", "B", " ", "A">> >>,
      << <<"$undefine", " ", "A">> >> }

\* A use of A before its $define, after it, and after its $undefine.
DefineScenario ==
    << <<"A">>, <<"$define", " ", "A", " ", "1">>, <<"A">>,
       <<"$undefine", " ", "A">>, <<"A">> >>

DefinePrograms ==
    Concatenations(DefineFragments, MaxItems) \cup CorePrograms \cup {DefineScenario}

InitDefine == InitOne(DefinePrograms)

SpecDefine == InitDefine /\ [][NextPP]_vars

(***************************************************************************)
(* C1.  $define and $undefine act on the tokens after them.                *)
(***************************************************************************)

IsDirectiveAt(tokens, j) == tokens[j].kind = "Preprocessor"

\* The token at index j is a $define or an $undefine.
IsMacroDirectiveAt(tokens, j) ==
    /\ IsDirectiveAt(tokens, j)
    /\ parseDirectiveToken(tokens[j]).ok
    /\ parseDirectiveToken(tokens[j]).val.kind \in {"define", "undefine"}

\* The input has no directive but $define and $undefine.
FlatInput(tokens) ==
    \A j \in 1..Len(tokens) : IsDirectiveAt(tokens, j) => IsMacroDirectiveAt(tokens, j)

\* The index of the last $define or $undefine before index k that names
\* `name`, or 0.
LatestDirective(tokens, k, name) ==
    LET S == {j \in 1..(k - 1) :
                 /\ IsMacroDirectiveAt(tokens, j)
                 /\ parseDirectiveToken(tokens[j]).val.name = name}
    IN  IF S = {} THEN 0 ELSE CHOOSE j \in S : \A i \in S : i <= j

\* `name` is defined for the token at index k: the last directive before k
\* that names it is a $define.
DefinedAt(tokens, k, name) ==
    /\ LatestDirective(tokens, k, name) # 0
    /\ parseDirectiveToken(tokens[LatestDirective(tokens, k, name)]).val.kind = "define"

DirectiveNames(tokens) ==
    {parseDirectiveToken(tokens[j]).val.name :
        j \in {i \in 1..Len(tokens) : IsMacroDirectiveAt(tokens, i)}}

\* The macro table that the directives before index k leave of `initial`.
TableAt(tokens, k, initial) ==
    LET touched == {n \in DirectiveNames(tokens) : LatestDirective(tokens, k, n) # 0}
        defined == {n \in touched : DefinedAt(tokens, k, n)}
        valueOf(n) == parseDirectiveToken(tokens[LatestDirective(tokens, k, n)]).val
    IN  [n \in (DOMAIN initial \ touched) \cup defined |->
            IF n \in defined
            THEN MacroDef(valueOf(n).parameters, tokenizeMacroValue(valueOf(n).value))
            ELSE initial[n]]

\* What the token at index k sends to the output.
EmittedAt(tokens, k, initial) ==
    IF IsDirectiveAt(tokens, k) THEN <<>>
    ELSE IF tokens[k].kind = "Identifier" /\ tokens[k].value \in DOMAIN TableAt(tokens, k, initial)
    THEN expandTokens(<<tokens[k]>>, TableAt(tokens, k, initial), 0).val
    ELSE <<tokens[k]>>

ExpectedOutput(tokens, initial) ==
    Flatten([k \in 1..(Len(tokens) - 1) |-> EmittedAt(Front(tokens), k, initial)])
        \o <<Last(tokens)>>

\* C1: in a stream whose directives are $define and $undefine, every token
\* is emitted under the macro table that the directives before it leave:
\* a name is emitted as it stands when no directive before it names it or
\* the last one that does is an $undefine, and is expanded to the value of
\* the last $define before it otherwise; a directive changes nothing that
\* was emitted before it.
ClaimC1 ==
    \A p \in Calls :
        (calls[p].status = "done" /\ FlatInput(Front(calls[p].tokens))) =>
            calls[p].result.tokens =
                ExpectedOutput(calls[p].tokens,
                               buildInitialMacros(calls[p].options.globalConstants).val)

\* The scenario has run: A, then its value 1, then A again.
WitnessC1 ==
    /\ calls[1].tokens = TokenizeLines(DefineScenario).val
    /\ calls[1].status = "done"
    /\ calls[1].result.tokens =
           <<Tok("Identifier", "A"), Tok("Newline", "\n"), Tok("Number", "1"),
             Tok("Newline", "\n"), Tok("Identifier", "A"), EOFToken>>

(***************************************************************************)
(* C2.  Conditional chains.  The programs: an optional `$define A 1`, a    *)
(* chain of up to MaxBranches conditions with or without $else, whose      *)
(* branch j holds the lines `bj` and `$define SEL nj`, and the line `SEL`. *)
(***************************************************************************)

MaxBranches == 3

BodyNames == <<"b1", "b2", "b3", "b4", "b5">>

BodyNumbers == <<"1", "2", "3", "5", "10">>

Conditions ==
    { <<"A">>, <<"0">>, <<"1">>, <<"U">>,
      <<"__BACKEND__", " ", "==", " ", "\"js\"">> }

BranchBody(j) == << <<BodyNames[j]>>, <<"$define", " ", "SEL", " ", BodyNumbers[j]>> >>

RECURSIVE ElifLines(_, _)
\* The branches j.. of the chain with the conditions conds.
ElifLines(conds, j) ==
    IF j > Len(conds) THEN <<>>
    ELSE << <<"}", " ", "$elif", " ">> \o conds[j] \o <<" ", "${">> >>
             \o BranchBody(j) \o ElifLines(conds, j + 1)

ChainLines(conds, hasElse) ==
    << <<"$if", " ">> \o conds[1] \o <<" ", "${">> >>
        \o BranchBody(1)
        \o ElifLines(conds, 2)
        \o (IF hasElse
            THEN << <<"}", " ", "$else", " ", "${">> >> \o BranchBody(Len(conds) + 1)
            ELSE <<>>)
        \o << <<"}">>, <<"$fi">>, <<"SEL">> >>

SequencesUpTo(S, n) == UNION {[1..k -> S] : k \in 1..n}

IfPrograms ==
    {pre \o ChainLines(conds, hasElse) :
        pre \in {<<>>, << <<"$define", " ", "A", " ", "1">> >>},
        conds \in SequencesUpTo(Conditions, MaxBranches),
        hasElse \in BOOLEAN}
    \cup CorePrograms

InitIf == InitOne(IfPrograms)

SpecIf == InitIf /\ [][NextPP]_vars

\* The branch directives of the one chain of a chain program, from the
\* directive trace of the result.
ChainDirectives(result) ==
    SelectSeq(result.directives, LAMBDA d : d.kind \in {"if", "elif", "else"})

\* The input of call p is a chain program.
IsChainInput(p) ==
    /\ Len(calls[p].tokens) > 1
    /\ calls[p].tokens[Len(calls[p].tokens) - 1] = Tok("Identifier", "SEL")

\* The macro table at the chain: the initial one, and A when the program
\* starts with its $define.
ChainTable(p) ==
    TableAt(calls[p].tokens, 2, buildInitialMacros(calls[p].options.globalConstants).val)

\* The first branch in source order whose condition holds or that is the
\* $else, 0 when there is none.
FirstHolding(dirs, macros) ==
    LET S == {k \in 1..Len(dirs) :
                 \/ dirs[k].kind = "else"
                 \/ evaluateIfCondition(dirs[k].condition, macros).val}
    IN  IF S = {} THEN 0 ELSE CHOOSE k \in S : \A j \in S : k <= j

TokenValues(tokens) == [k \in 1..Len(tokens) |-> tokens[k].value]

\* What a chain program leaves in the output when branch sel is selected.
ChainOutput(sel) ==
    IF sel = 0 THEN <<"SEL", "">>
    ELSE <<BodyNames[sel], "\n", BodyNumbers[sel], "">>

\* C2: of a chain the one branch that is processed is the first in source
\* order whose condition holds, the $else branch when none holds and there
\* is one, and no branch otherwise: the output holds the body of that branch
\* alone and only its $define has taken effect.
ClaimC2 ==
    \A p \in Calls :
        (calls[p].status = "done" /\ IsChainInput(p)) =>
            LET sel == FirstHolding(ChainDirectives(calls[p].result), ChainTable(p))
            IN  /\ TokenValues(calls[p].result.tokens) = ChainOutput(sel)
                /\ "SEL" \in DOMAIN calls[p].result.defines <=> sel # 0
                /\ sel # 0 => calls[p].result.defines["SEL"] = <<BodyNumbers[sel]>>

\* A chain whose second and third conditions both hold has run, and the
\* body of the second is the output.
WitnessC2 ==
    /\ calls[1].status = "done"
    /\ IsChainInput(1)
    /\ Len(ChainDirectives(calls[1].result)) = 3
    /\ FirstHolding(ChainDirectives(calls[1].result), ChainTable(1)) = 2
    /\ ChainDirectives(calls[1].result)[3].kind = "elif"
    /\ evaluateIfCondition(ChainDirectives(calls[1].result)[3].condition,
                           ChainTable(1)).val
    /\ TokenValues(calls[1].result.tokens) = <<"b2", "\n", "2", "">>

(***************************************************************************)
(* expandTokens step by step.  The state of a call is                      *)
(*   status   "running", "returned" or "thrown"                            *)
(*   stack    the activations of expandTokens, outermost first, each       *)
(*            {tokens, i, expanded, depth}; the i of an activation that    *)
(*            waits for an inner one is the index at which its loop goes   *)
(*            on                                                           *)
(*   macros, tokens (the arguments), result, error                         *)
(***************************************************************************)

Activation(tokens, depth) ==
    [tokens |-> tokens, i |-> 1, expanded |-> <<>>, depth |-> depth]

NewExpansion(tokens, macros) ==
    [status |-> "running", tokens |-> tokens, macros |-> macros,
     stack |-> <<Activation(tokens, 0)>>, result |-> Null, error |-> Null]

Throw(ex, e) == [ex EXCEPT !.status = "thrown", !.error = e, !.stack = <<>>]

\* expandTokens(tokens, macros, depth + 1) is called from the innermost
\* activation, whose loop goes on at index next when the call returns.
CallExpand(ex, tokens, next) ==
    IF DepthExceeded(Last(ex.stack).depth + 1)
    THEN Throw(ex, Err("Macro expansion exceeded maximum depth.", <<>>))
    ELSE [ex EXCEPT !.stack =
              Append([ex.stack EXCEPT ![Len(ex.stack)].i = next],
                     Activation(tokens, Last(ex.stack).depth + 1))]

\* What the loop of the innermost activation a does at its token.
ExpandOp(a, macros) ==
    IF a.i > Len(a.tokens) THEN "return"
    ELSE IF a.tokens[a.i].kind # "Identifier" \/ a.tokens[a.i].value \notin DOMAIN macros
    THEN "keep"
    ELSE IF macros[a.tokens[a.i].value].parameters # Null THEN "function"
    ELSE IF IsSelfAlias(macros[a.tokens[a.i].value], a.tokens[a.i]) THEN "keep"
    ELSE "object"

ExpansionDoes(op) ==
    /\ expansion.status = "running"
    /\ ExpandOp(Last(expansion.stack), expansion.macros) = op

\* expanded.push(token)
KeepToken(ex, a) ==
    [ex EXCEPT !.stack[Len(ex.stack)] =
         [a EXCEPT !.expanded = Append(a.expanded, a.tokens[a.i]), !.i = a.i + 1]]

ExKeep ==
    /\ ExpansionDoes("keep")
    /\ expansion' = KeepToken(expansion, Last(expansion.stack))
    /\ UNCHANGED <<ppVars, lexer, parser, build>>

\* The replacement of an object-like macro is expanded.
ExObject ==
    /\ ExpansionDoes("object")
    /\ expansion' =
           CallExpand(expansion,
                      cloneTokens(expansion.macros[
                          Last(expansion.stack).tokens[Last(expansion.stack).i].value
                      ].replacement),
                      Last(expansion.stack).i + 1)
    /\ UNCHANGED <<ppVars, lexer, parser, build>>

RECURSIVE SubstituteInTurn(_, _, _, _)

\* The parameters from the j-th on are substituted one after the other,
\* each in what the ones before it have left.
SubstituteInTurn(tokens, parameters, arguments, j) ==
    IF j > Len(parameters) THEN tokens
    ELSE SubstituteInTurn(
             Flatten([k \in 1..Len(tokens) |->
                         IF tokens[k].kind = "Identifier" /\ tokens[k].value = parameters[j]
                         THEN cloneTokens(arguments[j])
                         ELSE <<tokens[k]>>]),
             parameters, arguments, j + 1)

\* An invocation whose parameters are substituted in turn.
InvokeMacroInTurn(ex, a, macro, invocation) ==
    IF ~invocation.ok THEN Throw(ex, invocation)
    ELSE IF invocation.val = Null THEN KeepToken(ex, a)
    ELSE IF ArityMismatch(macro, invocation.val)
    THEN Throw(ex, MacroArityError(a.tokens[a.i].value, Len(macro.parameters.some),
                                   Len(invocation.val.arguments)))
    ELSE CallExpand(ex,
                    cloneTokens(SubstituteInTurn(macro.replacement, macro.parameters.some,
                                                 invocation.val.arguments, 1)),
                    invocation.val.endIndex + 1)

\* The name of the function-like macro `macro` at the index of activation
\* a, for which parseMacroInvocation has returned `invocation`.
InvokeMacro(ex, a, macro, invocation) ==
    IF ~invocation.ok THEN Throw(ex, invocation)
    ELSE IF invocation.val = Null THEN KeepToken(ex, a)
    ELSE IF ArityMismatch(macro, invocation.val)
    THEN Throw(ex, MacroArityError(a.tokens[a.i].value, Len(macro.parameters.some),
                                   Len(invocation.val.arguments)))
    ELSE CallExpand(ex,
                    cloneTokens(SubstituteParameters(macro, invocation.val.arguments)),
                    invocation.val.endIndex + 1)

\* parseMacroInvocation is evaluated once, at the macro name.
ExFunction ==
    /\ ExpansionDoes("function")
    /\ \E invocation \in {parseMacroInvocation(Last(expansion.stack).tokens,
                                                Last(expansion.stack).i)} :
           expansion' =
               InvokeMacro(expansion, Last(expansion.stack),
                           expansion.macros[Last(expansion.stack).tokens[
                               Last(expansion.stack).i].value],
                           invocation)
    /\ UNCHANGED <<ppVars, lexer, parser, build>>

\* The innermost activation returns its expanded tokens.
ReturnExpanded(ex, a) ==
    IF Len(ex.stack) = 1
    THEN [ex EXCEPT !.status = "returned", !.result = a.expanded, !.stack = <<>>]
    ELSE [ex EXCEPT !.stack =
              [Front(ex.stack) EXCEPT ![Len(ex.stack) - 1].expanded =
                   ex.stack[Len(ex.stack) - 1].expanded \o a.expanded]]

ExReturn ==
    /\ ExpansionDoes("return")
    /\ expansion' = ReturnExpanded(expansion, Last(expansion.stack))
    /\ UNCHANGED <<ppVars, lexer, parser, build>>

NextExpand == ExKeep \/ ExObject \/ ExFunction \/ ExReturn

(***************************************************************************)
(* The inputs of expandTokens: tables of object-like macros A and B that   *)
(* may name each other or themselves, with token sequences over A, B and   *)
(* 1; and tables with a function-like macro F of up to MaxParams           *)
(* parameters, with invocations of F with up to MaxArgs arguments.         *)
(***************************************************************************)

MaxInput == 2

MaxParams == 2

MaxArgs == 3

Toks(words) == [k \in 1..Len(words) |-> WordToken(words[k])]

\* The tables that give each name of `names` one of its definitions of
\* `choices`, or none.
TablesOver(names, choices) ==
    UNION {[defined -> UNION {choices[n] : n \in defined}] : defined \in SUBSET names}

ObjectChoices ==
    [n \in {"A", "B"} |->
        IF n = "A"
        THEN {MacroDef(Null, Toks(<<"B">>)), MacroDef(Null, Toks(<<"A">>)),
              MacroDef(Null, Toks(<<"A", "+", "1">>)), MacroDef(Null, Toks(<<"1">>))}
        ELSE {MacroDef(Null, Toks(<<"A">>)), MacroDef(Null, Toks(<<"1">>)),
              MacroDef(Null, Toks(<<"B", "B">>))}]

\* A table is a function from names to definitions: one definition of its
\* own choices for each defined name.
ObjectTables ==
    {t \in TablesOver({"A", "B"}, ObjectChoices) :
        \A n \in DOMAIN t : t[n] \in ObjectChoices[n]}

ObjectInputs == {Toks(w) : w \in SequencesUpTo({"A", "B", "1"}, MaxInput)}

ParamNames == <<"x", "y", "z", "u">>

\* F(x1, ..., xn) with the replacement x1 + ... + xn, 0 when n = 0.
FunctionMacro(n) ==
    MacroDef(Some(SubSeq(ParamNames, 1, n)),
             IF n = 0 THEN Toks(<<"0">>)
             ELSE Toks(JoinBlank(SubSeq(ParamNames, 1, n))))

\* F(x) that invokes itself.
RecursiveMacro == MacroDef(Some(<<"x">>), Toks(<<"F", "(", "x", ")">>))

FunctionTables ==
    {("F" :> f) @@ t :
        f \in {FunctionMacro(n) : n \in 0..MaxParams} \cup {RecursiveMacro},
        t \in {EmptyMap, "A" :> MacroDef(Null, Toks(<<"1">>))}}

ArgShapes == {<<"1">>, <<"A">>, <<"(", "1", ",", "2", ")">>, <<"[", "1", ",", "2", "]">>}

RECURSIVE JoinComma(_)
JoinComma(args) ==
    IF Len(args) = 0 THEN <<>>
    ELSE IF Len(args) = 1 THEN args[1]
    ELSE args[1] \o <<",">> \o JoinComma(Tail(args))

\* F(a, ..., a) with m arguments of one shape.
Invocation(m, shape) == Toks(<<"F", "(">> \o JoinComma([k \in 1..m |-> shape]) \o <<")">>)

FunctionInputs ==
    {Invocation(m, shape) : m \in 0..MaxArgs, shape \in ArgShapes}
    \cup {Toks(<<"F">>), Toks(<<"F", "(", "1">>), Toks(<<"F", "(", "[", ")">>)}

\* ADD(a, b) = a + b, DOUBLE(x) = ADD(x, x) and SWAP(x, y) = y x K, with
\* and without object-like macros named A, K and x.
NestedTables ==
    {(("ADD" :> MacroDef(Some(<<"a", "b">>), Toks(<<"a", "+", "b">>)))
      @@ ("DOUBLE" :> MacroDef(Some(<<"x">>), Toks(<<"ADD", "(", "x", ",", "x", ")">>)))
      @@ ("SWAP" :> MacroDef(Some(<<"x", "y">>), Toks(<<"y", "x", "K">>))))
     @@ t :
        t \in {EmptyMap,
               "A" :> MacroDef(Null, Toks(<<"1">>)),
               ("K" :> MacroDef(Null, Toks(<<"2">>)))
                   @@ ("x" :> MacroDef(Null, Toks(<<"3">>)))}}

NestedArgs ==
    {<<"5">>, <<"A">>, <<"x">>, <<"y">>, <<"K">>, <<"DOUBLE", "(", "1", ")">>,
     <<"(", "1", ",", "2", ")">>, <<"ADD">>}

\* Calls of ADD, DOUBLE and SWAP, alone and followed by a token.
NestedInputs ==
    {Toks(<<"DOUBLE", "(">> \o a \o <<")">> \o rest) :
        a \in NestedArgs, rest \in {<<>>, <<"x">>}}
    \cup {Toks(<<n, "(">> \o a \o <<",">> \o b \o <<")">> \o rest) :
              n \in {"ADD", "SWAP"}, a \in NestedArgs, b \in NestedArgs,
              rest \in {<<>>, <<"x">>}}

\* `$define true true`, alone and with an A that stands for true.
AliasTables ==
    {("true" :> MacroDef(Null, Toks(<<"true">>))) @@ t :
        t \in {EmptyMap,
               "A" :> MacroDef(Null, Toks(<<"true">>)),
               "A" :> MacroDef(Null, Toks(<<"true", "+", "true">>))}}

AliasInputs == {Toks(w) : w \in SequencesUpTo({"true", "A", "1"}, MaxInput + 1)}

InitExpand ==
    /\ calls = Idle /\ heap = Idle /\ turn = 0 /\ fs = Idle
    /\ lexer = Idle /\ parser = Idle /\ build = Idle
    /\ \/ \E t \in ObjectTables, i \in ObjectInputs : expansion = NewExpansion(i, t)
       \/ \E t \in FunctionTables, i \in FunctionInputs : expansion = NewExpansion(i, t)
       \/ \E t \in NestedTables, i \in NestedInputs : expansion = NewExpansion(i, t)
       \/ \E t \in AliasTables, i \in AliasInputs : expansion = NewExpansion(i, t)

\* expandTokens runs on: it is synchronous code.
SpecExpand == InitExpand /\ [][NextExpand]_vars /\ WF_vars(NextExpand)

(***************************************************************************)
(* C3.  Macro expansion terminates.                                        *)
(***************************************************************************)

DepthError == Err("Macro expansion exceeded maximum depth.", <<>>)

ExpansionEnded == expansion.status \in {"returned", "thrown"}

\* No token of `tokens` names an object-like macro that expandTokens
\* replaces (one that is not an alias of itself).
FullyExpanded(tokens, macros) ==
    \A k \in 1..Len(tokens) :
        (/\ tokens[k].kind = "Identifier"
         /\ tokens[k].value \in DOMAIN macros
         /\ macros[tokens[k].value].parameters = Null)
            => IsSelfAlias(macros[tokens[k].value], tokens[k])

ObjectLikeOnly(macros) == \A n \in DOMAIN macros : macros[n].parameters = Null

IsOpen(token) == token.kind \in {"OpenParen", "OpenBracket", "OpenCurly"}

IsClose(token) == token.kind \in {"CloseParen", "CloseBracket", "CloseCurly"}

\* The number of brackets open before index k.
NestingAt(tokens, k) ==
    Cardinality({j \in 1..(k - 1) : IsOpen(tokens[j])})
        - Cardinality({j \in 1..(k - 1) : IsClose(tokens[j])})

\* The number of top-level arguments of the invocation F ( ... ) that is
\* the whole of `tokens`: one more than the commas directly inside the
\* outer parentheses, and 0 for empty parentheses.
TopLevelArguments(tokens) ==
    IF Len(tokens) = 3 THEN 0
    ELSE 1 + Cardinality({k \in 1..Len(tokens) :
                              tokens[k].kind = "Comma" /\ NestingAt(tokens, k) = 1})

\* `tokens` is one invocation F ( ... ) with balanced brackets.
IsInvocation(tokens) ==
    /\ Len(tokens) >= 3
    /\ tokens[1] = Tok("Identifier", "F")
    /\ tokens[2].kind = "OpenParen"
    /\ Last(tokens).kind = "CloseParen"
    /\ NestingAt(tokens, Len(tokens)) = 1
    /\ \A k \in 3..(Len(tokens) - 1) : NestingAt(tokens, k) >= 1

\* C10: the invocation of a function-like macro F of n parameters with m
\* top-level arguments, m # n, throws "Macro 'F' expects n argument(s),
\* got m." and returns no tokens; empty parentheses are 0 arguments; with
\* m = n the arity error is not thrown.
ClaimC10 ==
    (/\ ExpansionEnded
     /\ IsInvocation(expansion.tokens)
     /\ "F" \in DOMAIN expansion.macros
     /\ expansion.macros["F"].parameters # Null) =>
        LET n == Len(expansion.macros["F"].parameters.some)
            m == TopLevelArguments(expansion.tokens)
        IN  IF m # n
            THEN /\ expansion.status = "thrown"
                 /\ expansion.error =
                        Err("Macro '%' expects % argument(s), got %.", <<"F", n, m>>)
                 /\ expansion.result = Null
            ELSE expansion.error # Null =>
                     expansion.error.msg # "Macro '%' expects % argument(s), got %."

\* F of two parameters has been invoked with empty parentheses, and the
\* call has thrown "expects 2 argument(s), got 0".
WitnessC10 ==
    /\ expansion.status = "thrown"
    /\ expansion.tokens = Toks(<<"F", "(", ")">>)
    /\ expansion.error = Err("Macro '%' expects % argument(s), got %.", <<"F", 2, 0>>)

(***************************************************************************)
(* C4.  Circular includes.  The headers a.feph and b.feph hold $include    *)
(* lines that name a.feph, b.feph or h.feph, in every combination, or are  *)
(* missing; h.feph includes nothing.                                       *)
(***************************************************************************)

MaxIncludes == 2

HeaderTargets == {"a.feph", "b.feph", "h.feph"}

IncludeLine(target) == <<"$include", " ", target>>

\* The texts of a header: no line, or up to MaxIncludes $include lines.
HeaderBodies ==
    {<<>>} \cup
    {[k \in DOMAIN targets |-> IncludeLine(targets[k])] :
        targets \in SequencesUpTo(HeaderTargets, MaxIncludes)}

HeaderChoices == {Null} \cup {Some(body) : body \in HeaderBodies}

\* The include directory with the chosen a.feph and b.feph.
FileSystem(a, b) ==
    [path \in {<<"src", "h.feph">>}
              \cup (IF a = Null THEN {} ELSE {<<"src", "a.feph">>})
              \cup (IF b = Null THEN {} ELSE {<<"src", "b.feph">>}) |->
        IF path = <<"src", "a.feph">> THEN a.some
        ELSE IF path = <<"src", "b.feph">> THEN b.some
        ELSE Files[path]]

IncludeProgram == << IncludeLine("a.feph"), <<"H">> >>

\* One call on a program that includes a.feph, over every include
\* directory; or one call on a core program.
InitInclude ==
    \/ /\ expansion = Idle /\ lexer = Idle /\ parser = Idle /\ build = Idle
       /\ fs \in {FileSystem(a, b) : a \in HeaderChoices, b \in HeaderChoices}
       /\ turn = 0
       /\ heap = [r \in Calls |-> NoObjects]
       /\ calls = [p \in Calls |->
                      IF p = 1
                      THEN NewCall(TokenizeLines(IncludeProgram).val, Options)
                      ELSE Absent]
    \/ InitOne(CorePrograms)

\* The event loop runs a continuation that is ready.
SpecInclude == InitInclude /\ [][NextPP]_vars /\ WF_vars(NextPP)

\* The include stack of the innermost processTokenStream: the files that
\* the call is in the middle of including, outermost first.
ActiveIncludes(st) == IF st.frames = <<>> THEN <<>> ELSE Top(st).includeStack

\* The call stands at an $include whose resolved path is being included.
AtCircularInclude(st) ==
    /\ NextOp(st) = "include"
    /\ Contains(ActiveIncludes(st),
                PathResolve(Top(st).baseDir, CurrentDirective(st).val.source))

CircularError(st) ==
    Err("Circular $include detected for '%'.", <<CurrentDirective(st).val.source>>)

\* C4: an $include whose resolved path is on the active include stack fails
\* with the circular-include error and no further readFile; no file is read
\* while it is being included, no file is included twice on the stack, and
\* every call ends, whatever the header files hold.
ClaimC4 ==
    /\ [][\A p \in Calls :
            AtCircularInclude(calls[p]) /\ calls'[p] # calls[p] =>
                /\ calls'[p].status = "failed"
                /\ calls'[p].error = CircularError(calls[p])
                /\ calls'[p].reads = calls[p].reads]_vars
    /\ [](\A p \in Calls :
            /\ calls[p].status = "reading" =>
                   ~Contains(ActiveIncludes(calls[p]), calls[p].pending.path)
            /\ \A j, k \in DOMAIN ActiveIncludes(calls[p]) :
                   ActiveIncludes(calls[p])[j] = ActiveIncludes(calls[p])[k] => j = k)
    /\ <>(calls[1].status \in {"done", "failed"})

\* a.feph includes b.feph, which includes a.feph: the call has failed with
\* the circular-include error after reading each file once.
WitnessC4 ==
    /\ calls[1].status = "failed"
    /\ calls[1].error = Err("Circular $include detected for '%'.", <<<<"a.feph">>>>)
    /\ calls[1].reads = << <<"src", "a.feph">>, <<"src", "b.feph">> >>

(***************************************************************************)
(* C5.  Two preprocessTokens calls on one event loop.  Call 1 runs a       *)
(* program of up to MaxConcurrent fragments, call 2 one of two programs;   *)
(* both define, use and include, so that each is suspended at the readFile *)
(* of an $include while the other runs.                                    *)
(***************************************************************************)

MaxConcurrent == 3

\* The steps that a call of these programs takes at most.
MaxSteps == 40

ConcurrentFragments ==
    { << <<"$define", " ", "A", " ", "1">> >>,
      << <<"$include", " ", "h.feph">> >>,
      << <<"A", " ", "H">> >>,
      << <<"$undefine", " ", "H">> >> }

FirstPrograms == Concatenations(ConcurrentFragments, MaxConcurrent) \cup CorePrograms

SecondPrograms ==
    { << <<"$define", " ", "A", " ", "2">>,
         <<"$include", " ", "h.feph">>,
         <<"A", " ", "H">> >>,
      << <<"$include", " ", "a.feph">>, <<"A">> >> }

InitConcurrent ==
    /\ expansion = Idle /\ lexer = Idle /\ parser = Idle /\ build = Idle
    /\ fs = Files
    /\ turn = 0
    /\ heap = [r \in Calls |-> NoObjects]
    /\ \E first \in FirstPrograms, second \in SecondPrograms :
           calls = [p \in Calls |->
                       NewCall(TokenizeLines(IF p = 1 THEN first ELSE second).val,
                               Options)]

SpecConcurrent == InitConcurrent /\ [][NextPP]_vars

\* The call with the arguments of call p, run alone to its end.
Alone(p) == RunFor(NewCall(calls[p].tokens, calls[p].options), fs, MaxSteps)

SameOutcome(st, alone) ==
    /\ Settled(alone)
    /\ st.status = alone.status
    /\ st.result = alone.result
    /\ st.error = alone.error

\* C5: a call that has ended while another call ran on the same event loop
\* has the result (tokens, directives, defines), or the error, of the same
\* call run alone.
ClaimC5 ==
    \A p \in Calls :
        Settled(calls[p]) =>
            With(Alone(p), LAMBDA alone : SameOutcome(calls[p], alone))

\* Both calls have ended after an $include each, with different values of
\* the macro A.
WitnessC5 ==
    /\ calls[1].status = "done" /\ calls[2].status = "done"
    /\ calls[1].reads # <<>> /\ calls[2].reads # <<>>
    /\ \A p \in Calls : "A" \in DOMAIN calls[p].result.defines
    /\ calls[1].result.defines["A"] = <<"1">>
    /\ calls[2].result.defines["A"] = <<"2">>

(***************************************************************************)
(* The Tokenizer, character by character (lexer/lexer.ts).  A source is    *)
(* the sequence of its characters.  Each pattern of DEFAULT_PATTERNS is    *)
(* the operator that gives the index after its match at pos, 0 when it     *)
(* does not match there.                                                   *)
(***************************************************************************)

Blanks == {" ", "\t"}

Digits == {"0", "1", "2", "3", "4", "5", "6", "7", "8", "9"}

Letters ==
    {"a", "b", "c", "d", "e", "f", "g", "h", "i", "j", "k", "l", "m", "n", "o",
     "p", "q", "r", "s", "t", "u", "v", "w", "x", "y", "z", "A", "B", "C", "D",
     "E", "F", "G", "H", "I", "J", "K", "L", "M", "N", "O", "P", "Q", "R", "S",
     "T", "U", "V", "W", "X", "Y", "Z", "_"}

RECURSIVE JoinChars(_)
\* The string of a sequence of characters.
JoinChars(chars) ==
    IF chars = <<>> THEN "" ELSE Head(chars) \o JoinChars(Tail(chars))

\* source.slice(pos) starts with the characters of literal.
StartsWith(source, pos, literal) ==
    /\ pos + Len(literal) - 1 <= Len(source)
    /\ \A k \in 1..Len(literal) : source[pos + k - 1] = literal[k]

\* The index after the longest run of characters of S from pos on.
RunEnd(source, pos, S) ==
    CHOOSE k \in pos..(Len(source) + 1) :
        /\ k = Len(source) + 1 \/ source[k] \notin S
        /\ \A j \in pos..(k - 1) : source[j] \in S

\* The index of the next character c from pos on, or the end of the source.
UntilChar(source, pos, c) ==
    CHOOSE k \in pos..(Len(source) + 1) :
        /\ k = Len(source) + 1 \/ source[k] = c
        /\ \A j \in pos..(k - 1) : source[j] # c

\* [^\n]*
LineEnd(source, pos) == UntilChar(source, pos, "\n")

\* /^[^\S\n]+/
WhitespaceEnd(source, pos) ==
    IF source[pos] \in Blanks THEN RunEnd(source, pos, Blanks) ELSE 0

\* /^\n+/
NewlinesEnd(source, pos) ==
    IF source[pos] = "\n" THEN RunEnd(source, pos, {"\n"}) ELSE 0

\* /^\/\/[^\n]*/
LineCommentEnd(source, pos) ==
    IF StartsWith(source, pos, <<"/", "/">>) THEN LineEnd(source, pos) ELSE 0

\* /^\/\*[\s\S]*?\*\//: up to the first "*/" after the "/*".
BlockCommentEnd(source, pos) ==
    LET closes == {k \in (pos + 2)..Len(source) : StartsWith(source, k, <<"*", "/">>)}
    IN  IF StartsWith(source, pos, <<"/", "*">>) /\ closes # {}
        THEN (CHOOSE k \in closes : \A j \in closes : k <= j) + 2
        ELSE 0

\* /^\$[^\n]*/
PreprocessorEnd(source, pos) ==
    IF source[pos] = "$" THEN LineEnd(source, pos) ELSE 0

\* `.` matches every character but a line end.
IsEscapeAt(source, k) ==
    source[k] = "\\" /\ k + 1 <= Len(source) /\ source[k + 1] # "\n"

\* The character ` that delimits a template literal, which a TLA+ string
\* cannot hold.
Backtick == "<backtick>"

RECURSIVE TemplateScan(_, _)
\* (?:[^`\\$]|\\.|\$(?!\{)|\$\{(?:[^}])*\})*` from index k on.
TemplateScan(source, k) ==
    IF k > Len(source) THEN 0
    ELSE IF source[k] = Backtick THEN k + 1
    ELSE IF source[k] = "\\"
    THEN IF IsEscapeAt(source, k) THEN TemplateScan(source, k + 2) ELSE 0
    ELSE IF StartsWith(source, k, <<"$", "{">>)
    THEN With(UntilChar(source, k + 2, "}"),
              LAMBDA close :
                  IF close > Len(source) THEN 0 ELSE TemplateScan(source, close + 1))
    ELSE TemplateScan(source, k + 1)

TemplateEnd(source, pos) ==
    IF source[pos] = Backtick THEN TemplateScan(source, pos + 1) ELSE 0

RECURSIVE StringScan(_, _, _)
\* (?:[^"\\]|\\.)*" from index k on, for the quote character.
StringScan(source, k, quote) ==
    IF k > Len(source) THEN 0
    ELSE IF source[k] = quote THEN k + 1
    ELSE IF source[k] = "\\"
    THEN IF IsEscapeAt(source, k) THEN StringScan(source, k + 2, quote) ELSE 0
    ELSE StringScan(source, k + 1, quote)

\* /^"(?:[^"\\]|\\.)*"/ and /^'(?:[^'\\]|\\.)*'/
StringEnd(source, pos, quote) ==
    IF source[pos] = quote THEN StringScan(source, pos + 1, quote) ELSE 0

\* The digits from pos on end at index e: (\.\d+)?
FractionEnd(source, e) ==
    IF e + 1 <= Len(source) /\ source[e] = "." /\ source[e + 1] \in Digits
    THEN RunEnd(source, e + 1, Digits)
    ELSE e

\* /^\d+(\.\d+)?/
NumberEnd(source, pos) ==
    IF source[pos] \in Digits
    THEN With(RunEnd(source, pos, Digits), LAMBDA e : FractionEnd(source, e))
    ELSE 0

\* /^[a-zA-Z_][a-zA-Z0-9_]*/
IdentifierEnd(source, pos) ==
    IF source[pos] \in Letters THEN RunEnd(source, pos, Letters \cup Digits) ELSE 0

\* The patterns of one fixed text with their staticHandler kinds, in the
\* order of DEFAULT_PATTERNS.
StaticPatterns ==
    << <<"=>", "Arrow">>, <<"++", "PlusPlus">>, <<"--", "MinusMinus">>,
       <<"+=", "PlusEquals">>, <<"-=", "MinusEquals">>, <<"==", "Equals">>,
       <<"!=", "NotEquals">>, <<"<=", "LessEquals">>, <<">=", "GreaterEquals">>,
       <<"||", "LogicalOr">>, <<"&&", "LogicalAnd">>, <<"<<=", "LeftShiftEquals">>,
       <<">>=", "RightShiftEquals">>, <<">>>=", "UnsignedRightShiftEquals">>,
       <<"&=", "AmpersandEquals">>, <<"|=", "PipeEquals">>, <<"^=", "CaretEquals">>,
       <<">>>", "UnsignedRightShift">>, <<"<<", "LeftShift">>, <<">>", "RightShift">>,
       <<"=", "Assignment">>, <<"!", "Not">>, <<"<", "Less">>, <<">", "Greater">>,
       <<"+", "Plus">>, <<"-", "Minus">>, <<"/", "Slash">>, <<"*", "Star">>,
       <<"%", "Percent">>, <<"&", "Ampersand">>, <<"|", "Pipe">>, <<"^", "Caret">>,
       <<"~", "Tilde">>, <<"[", "OpenBracket">>, <<"]", "CloseBracket">>,
       <<"{", "OpenCurly">>, <<"}", "CloseCurly">>, <<"(", "OpenParen">>,
       <<")", "CloseParen">>, <<".", "Dot">>, <<";", "Semicolon">>,
       <<":", "Colon">>, <<"?", "Question">>, <<",", "Comma">> >>

\* The characters of the text of a static pattern.
StaticChars ==
    [w \in {StaticPatterns[k][1] : k \in DOMAIN StaticPatterns} |->
        CASE w = "<<=" -> <<"<", "<", "=">>
          [] w = ">>=" -> <<">", ">", "=">>
          [] w = ">>>=" -> <<">", ">", ">", "=">>
          [] w = ">>>" -> <<">", ">", ">">>
          [] w = "-=" -> <<"-", "=">>
          [] w = "<=" -> <<"<", "=">>
          [] w = ">=" -> <<">", "=">>
          [] w = "&=" -> <<"&", "=">>
          [] w = "|=" -> <<"|", "=">>
          [] w = "^=" -> <<"^", "=">>
          [] OTHER -> Chars(w)]

StaticEnd(source, pos, w) ==
    IF StartsWith(source, pos, StaticChars[w]) THEN pos + Len(StaticChars[w]) ELSE 0

Pattern(handler, kind, end) == [handler |-> handler, kind |-> kind, end |-> end]

\* DEFAULT_PATTERNS tried at pos: each pattern with the index after its
\* match there.
PatternsAt(source, pos) ==
    << Pattern("skip", "", WhitespaceEnd(source, pos)),
       Pattern("newline", "Newline", NewlinesEnd(source, pos)),
       Pattern("value", "LineComment", LineCommentEnd(source, pos)),
       Pattern("value", "BlockComment", BlockCommentEnd(source, pos)),
       Pattern("value", "Preprocessor", PreprocessorEnd(source, pos)),
       Pattern("value", "TemplateLiteral", TemplateEnd(source, pos)),
       Pattern("value", "String", StringEnd(source, pos, "\"")),
       Pattern("value", "String", StringEnd(source, pos, "'")),
       Pattern("value", "Number", NumberEnd(source, pos)) >>
    \o [k \in DOMAIN StaticPatterns |->
           Pattern("static", StaticPatterns[k][2],
                   StaticEnd(source, pos, StaticPatterns[k][1]))]
    \o << Pattern("word", "Identifier", IdentifierEnd(source, pos)) >>

\* The first pattern that matches, Null when none does.
FirstOf(patterns) ==
    LET S == {k \in DOMAIN patterns : patterns[k].end # 0}
    IN  IF S = {} THEN Null ELSE patterns[CHOOSE k \in S : \A j \in S : k <= j]

FirstMatch(source, pos) == With(PatternsAt(source, pos), FirstOf)

\* The handler of the identifier pattern: KEYWORDS[word] ?? Identifier.
WordKind(word) == IF word \in DOMAIN KEYWORDS THEN KEYWORDS[word] ELSE "Identifier"

\* The tokens after the handler of the pattern has run on the text matched.
Handle(tokens, pattern, matched) ==
    CASE pattern.handler = "skip" -> tokens
      [] pattern.handler = "newline" -> AfterNewline(tokens)
      [] pattern.handler = "word" -> Append(tokens, Tok(WordKind(matched), matched))
      [] OTHER -> Append(tokens, Tok(pattern.kind, matched))

\* new Tokenizer(source)
NewTokenizer(source) ==
    [status |-> "running", source |-> source, pos |-> 1, tokens |-> <<>>,
     error |-> Null]

\* One turn of the while loop of tokenize, with the first pattern that
\* matches at pos, or none.
TokenizeStep(tk, pattern) ==
    IF pattern = Null
    THEN [tk EXCEPT !.status = "thrown",
                    !.error = Err("Unexpected character '%' at position %",
                                  <<tk.source[tk.pos], tk.pos - 1>>)]
    ELSE [tk EXCEPT !.pos = pattern.end,
                    !.tokens = Handle(tk.tokens, pattern,
                                      JoinChars(SubSeq(tk.source, tk.pos,
                                                       pattern.end - 1)))]

\* The end of tokenize: the EOF token is pushed.
TokenizeEnd(tk) ==
    [tk EXCEPT !.status = "done", !.tokens = Append(tk.tokens, EOFToken)]

\* One turn of the while loop of tokenize, or its end.
TokenizeTurn(tk) ==
    IF tk.pos > Len(tk.source) THEN TokenizeEnd(tk)
    ELSE With(FirstMatch(tk.source, tk.pos),
              LAMBDA pattern : TokenizeStep(tk, pattern))

RECURSIVE TokenizeFrom(_, _)
\* The while loop of tokenize from tk on, for n turns.
TokenizeFrom(tk, n) ==
    IF tk.status # "running" THEN tk
    ELSE IF n <= 1 THEN TokenizeTurn(tk)
    ELSE With(TokenizeFrom(tk, n \div 2),
              LAMBDA half : TokenizeFrom(half, n - n \div 2))

\* new Tokenizer(source).tokenize(): Ok(tokens) or the error thrown.
tokenize(source) ==
    With(TokenizeFrom(NewTokenizer(source), Len(source) + 1),
         LAMBDA tk : IF tk.status = "done" THEN Ok(tk.tokens) ELSE tk.error)

(***************************************************************************)
(* The tokenizer at work: `lexer` is a Tokenizer, one action for each      *)
(* handler that a turn of the loop of tokenize can run.                    *)
(***************************************************************************)

LexerAt(handlers) ==
    /\ lexer.status = "running"
    /\ lexer.pos <= Len(lexer.source)
    /\ \E pattern \in {FirstMatch(lexer.source, lexer.pos)} :
           /\ pattern # Null
           /\ pattern.handler \in handlers
           /\ lexer' = TokenizeStep(lexer, pattern)
    /\ UNCHANGED <<ppVars, expansion, parser, build>>

\* Blanks are skipped.
LexSkip == LexerAt({"skip"})

\* The handler of /^\n+/.
LexNewline == LexerAt({"newline"})

\* valueHandler, staticHandler and the identifier handler push a token.
LexPush == LexerAt({"value", "static", "word"})

\* No pattern matches.
LexThrow ==
    /\ lexer.status = "running"
    /\ lexer.pos <= Len(lexer.source)
    /\ FirstMatch(lexer.source, lexer.pos) = Null
    /\ lexer' = TokenizeStep(lexer, Null)
    /\ UNCHANGED <<ppVars, expansion, parser, build>>

LexEnd ==
    /\ lexer.status = "running"
    /\ lexer.pos > Len(lexer.source)
    /\ lexer' = TokenizeEnd(lexer)
    /\ UNCHANGED <<ppVars, expansion, parser, build>>

NextLex == LexSkip \/ LexNewline \/ LexPush \/ LexThrow \/ LexEnd

MaxFragments == 3

\* Pieces of source text: a name, a keyword, blanks, line ends, an operator,
\* a comma, a bracket, comments, a directive line, a character that no pattern
\* matches, and blank lines with a blank or a comment between them.
SourceFragments ==
    { <<"a">>, <<"r", "e", "t", "u", "r", "n">>, <<" ">>, <<"\n">>,
      <<"+">>, <<",">>, <<"(">>, <<"/", "/", "c">>,
      <<"/", "*", "c", "*", "/">>, <<"$", "d">>, <<"#">>,
      <<"\n", " ", "\n">>, <<"\n", "/", "/", "c", "\n">> }

Sources == Concatenations(SourceFragments, MaxFragments)

InitLex ==
    /\ calls = Idle /\ heap = Idle /\ fs = Idle /\ turn = 0
    /\ expansion = Idle /\ parser = Idle /\ build = Idle
    /\ \E source \in Sources : lexer = NewTokenizer(source)

SpecLex == InitLex /\ [][NextLex]_vars

(***************************************************************************)
(* C9.  Newline tokens.                                                    *)
(***************************************************************************)

\* The index of the nearest token before index k that is no comment, 0 when
\* there is none.
NearestBefore(tokens, k) ==
    LET S == {j \in 1..(k - 1) : tokens[j].kind \notin {"LineComment", "BlockComment"}}
    IN  IF S = {} THEN 0 ELSE CHOOSE j \in S : \A i \in S : i <= j

\* C9: in the tokens of a Tokenizer, the nearest token before a Newline
\* token that is no comment is a Number, String, TemplateLiteral,
\* Identifier, ")", "]", "}", "++", "--" or return token; so the first token
\* is no Newline, and between two Newline tokens there is a token that is
\* neither a comment nor a Newline.
ClaimC9 ==
    lexer.status \in {"running", "done", "thrown"} =>
        /\ \A k \in DOMAIN lexer.tokens :
               lexer.tokens[k].kind = "Newline" =>
                   /\ NearestBefore(lexer.tokens, k) # 0
                   /\ lexer.tokens[NearestBefore(lexer.tokens, k)].kind \in
                          {"Number", "String", "TemplateLiteral", "Identifier",
                           "CloseParen", "CloseBracket", "CloseCurly", "PlusPlus",
                           "MinusMinus", "Return"}
        /\ lexer.tokens # <<>> => lexer.tokens[1].kind # "Newline"
        /\ \A j, k \in DOMAIN lexer.tokens :
               /\ j < k
               /\ lexer.tokens[j].kind = "Newline"
               /\ lexer.tokens[k].kind = "Newline"
               => \E i \in (j + 1)..(k - 1) :
                      lexer.tokens[i].kind \notin {"LineComment", "BlockComment", "Newline"}

\* A name, then two line ends with a comment between them: one Newline
\* token, before the comment.
WitnessC9 ==
    /\ lexer.status = "done"
    /\ lexer.source = <<"a", "\n", "/", "/", "c", "\n">>
    /\ lexer.tokens =
           <<Tok("Identifier", "a"), Tok("Newline", "\n"), Tok("LineComment", "//c"),
             EOFToken>>

(***************************************************************************)
(* The parser (ast/ast.ts).  A Parser is its tokens, which end with the    *)
(* EOF token, and its position pos (counted from 1).  A parse method is an *)
(* operator of the tokens and the position at its call; its value is       *)
(* Parsed(node, pos), the node it returns and the position it leaves, or   *)
(* the Err of the Error it throws.                                         *)
(***************************************************************************)

\* The binding powers.
BP ==
    [None |-> 0, Assignment |-> 2, AssignmentRight |-> 1, Ternary |-> 4,
     TernaryRight |-> 3, LogicalOr |-> 6, LogicalAnd |-> 8, Equality |-> 10,
     Relational |-> 12, Bitwise |-> 13, Additive |-> 14, Multiplicative |-> 16,
     Unary |-> 18, Postfix |-> 20, Call |-> 22, Member |-> 24]

Parsed(node, pos) == [ok |-> TRUE, val |-> node, pos |-> pos]

\* A method goes on with F after a call that gave r; what the call throws
\* leaves the method.
Then(r, F(_)) == Only({IF x.ok THEN F(x) ELSE x : x \in {r}})

\* this.tokens[i]?.kind
KindAt(tokens, i) == IF i <= Len(tokens) THEN tokens[i].kind ELSE "undefined"

\* The position after advance().
advance(tokens, pos) == IF tokens[pos].kind = "EOF" THEN pos ELSE pos + 1

\* expect(kind): the token and the position after it, or the Error.
expect(tokens, pos, kind) ==
    IF tokens[pos].kind # kind
    THEN Err("Expected % but got % ('%')",
             <<kind, tokens[pos].kind, tokens[pos].value>>)
    ELSE Parsed(tokens[pos], advance(tokens, pos))

check(tokens, pos, kind) == tokens[pos].kind = kind

atEnd(tokens, pos) == tokens[pos].kind = "EOF"

\* peek(offset)
peek(tokens, pos, offset) ==
    IF pos + offset <= Len(tokens) THEN tokens[pos + offset] ELSE Last(tokens)

IsSeparator(kind) == kind \in {"Newline", "Semicolon"}

RECURSIVE skipSeparators(_, _)
\* The position after skipSeparators().
skipSeparators(tokens, pos) ==
    IF IsSeparator(tokens[pos].kind) THEN skipSeparators(tokens, pos + 1) ELSE pos

\* The position after eatSeparator().
eatSeparator(tokens, pos) == IF IsSeparator(tokens[pos].kind) THEN pos + 1 ELSE pos

isCommentToken(kind) == kind \in {"LineComment", "BlockComment"}

RECURSIVE SkipComments(_, _)
\* The position after the comment tokens at pos.
SkipComments(tokens, pos) ==
    IF isCommentToken(tokens[pos].kind) THEN SkipComments(tokens, pos + 1) ELSE pos

\* parseFloat on the number lexemes of the vocabulary.
NumberValue ==
    [w \in {"0", "1", "2", "3", "4", "5", "6", "7", "8", "9", "10"} |->
        CASE w = "0" -> 0 [] w = "1" -> 1 [] w = "2" -> 2 [] w = "3" -> 3
          [] w = "4" -> 4 [] w = "5" -> 5 [] w = "6" -> 6 [] w = "7" -> 7
          [] w = "8" -> 8 [] w = "9" -> 9 [] w = "10" -> 10]

parseFloat(w) == IF w \in DOMAIN NumberValue THEN NumberValue[w] ELSE "NaN"

\* raw.slice(1, -1)
Unquote(raw) == JoinChars(SubSeq(Chars(raw), 2, Len(Chars(raw)) - 1))

\* The tokens that have a nud handler, and the operator of a prefix one.
PrefixOps ==
    [Minus |-> "-", Not |-> "!", Delete |-> "delete", PlusPlus |-> "++",
     MinusMinus |-> "--", Tilde |-> "~"]

NudKinds ==
    {"Number", "String", "TemplateLiteral", "Identifier", "OpenParen",
     "OpenBracket", "OpenCurly"} \cup DOMAIN PrefixOps

\* The tokens that have a binary led handler, with its operator and its
\* binding power.
BinaryOps ==
    [Plus |-> [op |-> "+", bp |-> BP.Additive],
     Minus |-> [op |-> "-", bp |-> BP.Additive],
     Star |-> [op |-> "*", bp |-> BP.Multiplicative],
     Slash |-> [op |-> "/", bp |-> BP.Multiplicative],
     Percent |-> [op |-> "%", bp |-> BP.Multiplicative],
     Equals |-> [op |-> "==", bp |-> BP.Equality],
     NotEquals |-> [op |-> "!=", bp |-> BP.Equality],
     Less |-> [op |-> "<", bp |-> BP.Relational],
     LessEquals |-> [op |-> "<=", bp |-> BP.Relational],
     Greater |-> [op |-> ">", bp |-> BP.Relational],
     GreaterEquals |-> [op |-> ">=", bp |-> BP.Relational],
     LogicalOr |-> [op |-> "||", bp |-> BP.LogicalOr],
     LogicalAnd |-> [op |-> "&&", bp |-> BP.LogicalAnd],
     Ampersand |-> [op |-> "&", bp |-> BP.Bitwise],
     Pipe |-> [op |-> "|", bp |-> BP.Bitwise],
     Caret |-> [op |-> "^", bp |-> BP.Bitwise],
     LeftShift |-> [op |-> "<<", bp |-> BP.Additive],
     RightShift |-> [op |-> ">>", bp |-> BP.Additive],
     UnsignedRightShift |-> [op |-> ">>>", bp |-> BP.Additive]]

AssignmentOps ==
    [Assignment |-> "=", PlusEquals |-> "+=", MinusEquals |-> "-=",
     AmpersandEquals |-> "&=", PipeEquals |-> "|=", CaretEquals |-> "^=",
     LeftShiftEquals |-> "<<=", RightShiftEquals |-> ">>=",
     UnsignedRightShiftEquals |-> ">>>="]

PostfixOps == [PlusPlus |-> "++", MinusMinus |-> "--"]

\* ledMap: the tokens that have a led handler, and its binding power.
LedKinds ==
    DOMAIN BinaryOps \cup DOMAIN AssignmentOps \cup DOMAIN PostfixOps
        \cup {"Question", "OpenParen", "OpenBracket", "Dot"}

LedBP(kind) ==
    IF kind \in DOMAIN BinaryOps THEN BinaryOps[kind].bp
    ELSE IF kind \in DOMAIN AssignmentOps THEN BP.Assignment
    ELSE IF kind = "Question" THEN BP.Ternary
    ELSE IF kind \in DOMAIN PostfixOps THEN BP.Postfix
    ELSE IF kind = "OpenParen" THEN BP.Call
    ELSE BP.Member

RECURSIVE ArrowParamsEnd(_, _)
\* The index isArrowFunc reaches from i over `Identifier (Comma Identifier)*`.
ArrowParamsEnd(tokens, i) ==
    IF KindAt(tokens, i) # "Identifier" THEN i
    ELSE IF KindAt(tokens, i + 1) = "Comma" THEN ArrowParamsEnd(tokens, i + 2)
    ELSE i + 1

IsArrowTail(tokens, i) ==
    KindAt(tokens, i) = "CloseParen" /\ KindAt(tokens, i + 1) = "Arrow"

\* A lookahead that never sees an arrow function.
isArrowFuncNever(tokens, pos) == FALSE

\* isArrowFunc() at the position after the "(".
isArrowFunc(tokens, pos) ==
    IsArrowTail(tokens, pos) \/ IsArrowTail(tokens, ArrowParamsEnd(tokens, pos))

RECURSIVE IdentifierList(_, _, _)
\* The loop of parseParamList and of finishArrowFunc.
IdentifierList(tokens, pos, params) ==
    IF check(tokens, pos, "CloseParen") \/ atEnd(tokens, pos) THEN Parsed(params, pos)
    ELSE Then(expect(tokens, pos, "Identifier"),
              LAMBDA name :
                  IF check(tokens, name.pos, "Comma")
                  THEN IdentifierList(tokens, name.pos + 1,
                                      Append(params, name.val.value))
                  ELSE Parsed(Append(params, name.val.value), name.pos))

RECURSIVE parseExpr(_, _, _)
RECURSIVE parseStmt(_, _)
RECURSIVE parseBlock(_, _)
RECURSIVE parseBindingPattern(_, _)

\* The index after the loop that looks for the brace closing "${" from j on.
RECURSIVE BraceEnd(_, _, _)
BraceEnd(inner, j, depth) ==
    IF j > Len(inner) \/ depth = 0 THEN j
    ELSE IF inner[j] = "{" THEN BraceEnd(inner, j + 1, depth + 1)
    ELSE IF inner[j] = "}" THEN BraceEnd(inner, j + 1, depth - 1)
    ELSE BraceEnd(inner, j + 1, depth)

PushText(parts, text) ==
    IF text # <<>> THEN Append(parts, [text |-> JoinChars(text)]) ELSE parts

\* new Parser(new Tokenizer(exprSrc).tokenize()).parseExpr()
ParseSource(exprSrc) ==
    Then(tokenize(exprSrc), LAMBDA exprTokens : parseExpr(exprTokens.val, 1, BP.None))

RECURSIVE TemplateParts(_, _, _, _)
\* The loop of parseTemplateParts at index i of inner.
TemplateParts(inner, i, text, parts) ==
    IF i > Len(inner) THEN Ok(PushText(parts, text))
    ELSE IF inner[i] = "$" /\ i < Len(inner) /\ inner[i + 1] = "{"
    THEN With(BraceEnd(inner, i + 2, 1),
              LAMBDA j :
                  Then(ParseSource(SubSeq(inner, i + 2, j - 2)),
                       LAMBDA expr :
                           TemplateParts(inner, j, <<>>,
                                         Append(PushText(parts, text),
                                                [expr |-> expr.val]))))
    ELSE IF inner[i] = "\\" /\ i < Len(inner)
    THEN TemplateParts(inner, i + 2, Append(text, inner[i + 1]), parts)
    ELSE TemplateParts(inner, i + 1, Append(text, inner[i]), parts)

parseTemplateParts(raw) ==
    TemplateParts(SubSeq(Chars(raw), 2, Len(Chars(raw)) - 1), 1, <<>>, <<>>)

\* The nud handler of "(" when isArrowFunc() holds.
finishArrowFunc(tokens, pos) ==
    Then(IdentifierList(tokens, pos, <<>>), LAMBDA params :
    Then(expect(tokens, params.pos, "CloseParen"), LAMBDA close :
    Then(expect(tokens, close.pos, "Arrow"), LAMBDA arrow :
    Then(parseBlock(tokens, skipSeparators(tokens, arrow.pos)), LAMBDA body :
    Parsed([kind |-> "ArrowFunc", params |-> params.val, body |-> body.val],
           body.pos)))))

\* The nud handler of "(" otherwise.
ParseGroup(tokens, pos) ==
    Then(parseExpr(tokens, pos, BP.None), LAMBDA inner :
    Then(expect(tokens, inner.pos, "CloseParen"), LAMBDA close :
    Parsed([kind |-> "Group", inner |-> inner.val], close.pos)))

RECURSIVE ListElements(_, _, _)
\* The loop of the nud handler of "[".
ListElements(tokens, pos, elements) ==
    IF check(tokens, pos, "CloseBracket") \/ atEnd(tokens, pos)
    THEN Parsed(elements, pos)
    ELSE Then(parseExpr(tokens, pos, BP.None), LAMBDA element :
         With(skipSeparators(tokens, element.pos), LAMBDA next :
             IF check(tokens, next, "Comma")
             THEN With(skipSeparators(tokens, next + 1), LAMBDA after :
                      ListElements(tokens, after, Append(elements, element.val)))
             ELSE Parsed(Append(elements, element.val), next)))

ParseList(tokens, pos) ==
    Then(ListElements(tokens, skipSeparators(tokens, pos), <<>>), LAMBDA elements :
    Then(expect(tokens, elements.pos, "CloseBracket"), LAMBDA close :
    Parsed([kind |-> "List", elements |-> elements.val], close.pos)))

\* The key of a dict entry: {key, defaultValue} and the position after it.
DictKey(tokens, pos) ==
    IF check(tokens, pos, "String")
    THEN Parsed([key |-> [kind |-> "String", value |-> Unquote(tokens[pos].value)],
                 defaultValue |-> Null],
                pos + 1)
    ELSE Then(expect(tokens, pos, "Identifier"), LAMBDA name :
         Parsed([key |-> [kind |-> "Ident", name |-> name.val.value],
                 defaultValue |-> [kind |-> "Ident", name |-> name.val.value]],
                name.pos))

\* The value of the dict entry with the key `key`.
DictValue(tokens, key) ==
    IF check(tokens, key.pos, "Colon")
    THEN parseExpr(tokens, key.pos + 1, BP.None)
    ELSE IF key.val.defaultValue # Null
    THEN Parsed(key.val.defaultValue, key.pos)
    ELSE Err("Expected ':' after string key in object literal", <<>>)

RECURSIVE DictEntries(_, _, _)
\* The loop of the nud handler of "{".
DictEntries(tokens, pos, entries) ==
    IF check(tokens, pos, "CloseCurly") \/ atEnd(tokens, pos)
    THEN Parsed(entries, pos)
    ELSE Then(DictKey(tokens, pos), LAMBDA key :
         Then(DictValue(tokens, key), LAMBDA value :
         With(skipSeparators(tokens, value.pos), LAMBDA next :
             IF check(tokens, next, "Comma")
             THEN With(skipSeparators(tokens, next + 1), LAMBDA after :
                      DictEntries(tokens, after,
                                  Append(entries, [key |-> key.val.key,
                                                   value |-> value.val])))
             ELSE Parsed(Append(entries, [key |-> key.val.key, value |-> value.val]),
                         next))))

ParseDict(tokens, pos) ==
    Then(DictEntries(tokens, skipSeparators(tokens, pos), <<>>), LAMBDA entries :
    Then(expect(tokens, entries.pos, "CloseCurly"), LAMBDA close :
    Parsed([kind |-> "Dict", entries |-> entries.val], close.pos)))

prefixUnary(tokens, pos, op) ==
    Then(parseExpr(tokens, pos, BP.Unary), LAMBDA operand :
    Parsed([kind |-> "Unary", op |-> op, prefix |-> TRUE, operand |-> operand.val],
           operand.pos))

\* nud(this) for the token `token`, which advance() has passed: pos is the
\* position after it.
Nud(tokens, pos, token) ==
    CASE token.kind = "Number" ->
             Parsed([kind |-> "Number", value |-> parseFloat(token.value)], pos)
      [] token.kind = "String" ->
             Parsed([kind |-> "String", value |-> Unquote(token.value)], pos)
      [] token.kind = "TemplateLiteral" ->
             Then(parseTemplateParts(token.value), LAMBDA parts :
             Parsed([kind |-> "Template", parts |-> parts.val], pos))
      [] token.kind = "Identifier" ->
             Parsed([kind |-> "Ident", name |-> token.value], pos)
      [] token.kind = "OpenParen" ->
             IF isArrowFunc(tokens, pos) THEN finishArrowFunc(tokens, pos)
             ELSE ParseGroup(tokens, pos)
      [] token.kind = "OpenBracket" -> ParseList(tokens, pos)
      [] token.kind = "OpenCurly" -> ParseDict(tokens, pos)
      [] OTHER -> prefixUnary(tokens, pos, PrefixOps[token.kind])

\* A binary handler that parses its right operand with a threshold below
\* its own binding power.
binaryRightAssociative(tokens, pos, left, op, bp) ==
    Then(parseExpr(tokens, pos, bp - 1), LAMBDA right :
    Parsed([kind |-> "Binary", op |-> op, left |-> left, right |-> right.val],
           right.pos))

\* The led handler binary(op, bp).
binary(tokens, pos, left, op, bp) ==
    Then(parseExpr(tokens, pos, bp), LAMBDA right :
    Parsed([kind |-> "Binary", op |-> op, left |-> left, right |-> right.val],
           right.pos))

\* An assignment handler that parses its value with the binding power of
\* the assignment itself.
assignmentLeftAssociative(tokens, pos, left, op) ==
    Then(parseExpr(tokens, pos, BP.Assignment), LAMBDA value :
    Parsed([kind |-> "Assign", op |-> op, target |-> left, value |-> value.val],
           value.pos))

\* The led handler assignment(op).
assignment(tokens, pos, left, op) ==
    Then(parseExpr(tokens, pos, BP.AssignmentRight), LAMBDA value :
    Parsed([kind |-> "Assign", op |-> op, target |-> left, value |-> value.val],
           value.pos))

\* The led handler of "?".
ternary(tokens, pos, left) ==
    Then(parseExpr(tokens, pos, BP.None), LAMBDA consequent :
    Then(expect(tokens, consequent.pos, "Colon"), LAMBDA colon :
    Then(parseExpr(tokens, colon.pos, BP.TernaryRight), LAMBDA alternate :
    Parsed([kind |-> "Ternary", condition |-> left,
            consequent |-> consequent.val, alternate |-> alternate.val],
           alternate.pos))))

\* The led handler postfix(op).
postfix(tokens, pos, left, op) ==
    Parsed([kind |-> "Unary", op |-> op, prefix |-> FALSE, operand |-> left], pos)

RECURSIVE CallArguments(_, _, _)
\* The loop of the led handler of "(".
CallArguments(tokens, pos, args) ==
    IF check(tokens, pos, "CloseParen") \/ atEnd(tokens, pos) THEN Parsed(args, pos)
    ELSE Then(parseExpr(tokens, pos, BP.None), LAMBDA arg :
             IF check(tokens, arg.pos, "Comma")
             THEN CallArguments(tokens, arg.pos + 1, Append(args, arg.val))
             ELSE Parsed(Append(args, arg.val), arg.pos))

call(tokens, pos, left) ==
    Then(CallArguments(tokens, pos, <<>>), LAMBDA args :
    Then(expect(tokens, args.pos, "CloseParen"), LAMBDA close :
    Parsed([kind |-> "Call", callee |-> left, args |-> args.val], close.pos)))

index(tokens, pos, left) ==
    Then(parseExpr(tokens, pos, BP.None), LAMBDA at :
    Then(expect(tokens, at.pos, "CloseBracket"), LAMBDA close :
    Parsed([kind |-> "Index", object |-> left, index |-> at.val], close.pos)))

member(tokens, pos, left) ==
    Then(expect(tokens, pos, "Identifier"), LAMBDA prop :
    Parsed([kind |-> "Member", object |-> left, property |-> prop.val.value],
           prop.pos))

\* led.handler(this, left, led.bp) for the token of kind `kind`, which
\* advance() has passed.
Led(tokens, pos, left, kind) ==
    IF kind \in DOMAIN BinaryOps
    THEN binary(tokens, pos, left, BinaryOps[kind].op, BinaryOps[kind].bp)
    ELSE IF kind \in DOMAIN AssignmentOps
    THEN assignment(tokens, pos, left, AssignmentOps[kind])
    ELSE IF kind = "Question" THEN ternary(tokens, pos, left)
    ELSE IF kind \in DOMAIN PostfixOps THEN postfix(tokens, pos, left, PostfixOps[kind])
    ELSE IF kind = "OpenParen" THEN call(tokens, pos, left)
    ELSE IF kind = "OpenBracket" THEN index(tokens, pos, left)
    ELSE member(tokens, pos, left)

RECURSIVE LedLoop(_, _, _, _)
\* The `while (true)` loop of parseExpr with the operand `left`.
LedLoop(tokens, pos, left, minBP) ==
    IF isCommentToken(tokens[pos].kind) THEN LedLoop(tokens, pos + 1, left, minBP)
    ELSE IF IsSeparator(tokens[pos].kind) \/ atEnd(tokens, pos) THEN Parsed(left, pos)
    ELSE IF tokens[pos].kind \notin LedKinds \/ LedBP(tokens[pos].kind) <= minBP
    THEN Parsed(left, pos)
    ELSE Then(Led(tokens, pos + 1, left, tokens[pos].kind),
              LAMBDA next : LedLoop(tokens, next.pos, next.val, minBP))

\* parseExpr at the first token that is no comment.
ParseOperand(tokens, pos, minBP) ==
    IF tokens[pos].kind \notin NudKinds
    THEN Err("Unexpected token in expression: % ('%')",
             <<tokens[pos].kind, tokens[pos].value>>)
    ELSE Then(Nud(tokens, advance(tokens, pos), tokens[pos]),
              LAMBDA left : LedLoop(tokens, left.pos, left.val, minBP))

parseExpr(tokens, pos, minBP) ==
    With(SkipComments(tokens, pos), LAMBDA first : ParseOperand(tokens, first, minBP))

RECURSIVE ListPatternElements(_, _, _)
\* The loop of parseListPattern.
ListPatternElements(tokens, pos, elements) ==
    IF check(tokens, pos, "CloseBracket") \/ atEnd(tokens, pos)
    THEN Parsed(elements, pos)
    ELSE Then(parseBindingPattern(tokens, pos), LAMBDA element :
             IF check(tokens, element.pos, "Comma")
             THEN ListPatternElements(tokens, element.pos + 1,
                                      Append(elements, element.val))
             ELSE Parsed(Append(elements, element.val), element.pos))

parseListPattern(tokens, pos) ==
    Then(expect(tokens, pos, "OpenBracket"), LAMBDA open :
    Then(ListPatternElements(tokens, open.pos, <<>>), LAMBDA elements :
    Then(expect(tokens, elements.pos, "CloseBracket"), LAMBDA close :
    Parsed([kind |-> "ListPattern", elements |-> elements.val], close.pos))))

\* The binding of the property of an object pattern whose key is `key`.
PropertyBinding(tokens, key) ==
    IF check(tokens, key.pos, "Colon")
    THEN parseBindingPattern(tokens, key.pos + 1)
    ELSE Parsed([kind |-> "IdentPattern", name |-> key.val.value], key.pos)

RECURSIVE ObjectPatternProperties(_, _, _)
\* The loop of parseObjectPattern.
ObjectPatternProperties(tokens, pos, properties) ==
    IF check(tokens, pos, "CloseCurly") \/ atEnd(tokens, pos)
    THEN Parsed(properties, pos)
    ELSE Then(expect(tokens, pos, "Identifier"), LAMBDA key :
         Then(PropertyBinding(tokens, key), LAMBDA binding :
             IF check(tokens, binding.pos, "Comma")
             THEN ObjectPatternProperties(
                      tokens, binding.pos + 1,
                      Append(properties, [key |-> key.val.value,
                                          binding |-> binding.val]))
             ELSE Parsed(Append(properties, [key |-> key.val.value,
                                             binding |-> binding.val]),
                         binding.pos)))

parseObjectPattern(tokens, pos) ==
    Then(expect(tokens, pos, "OpenCurly"), LAMBDA open :
    Then(ObjectPatternProperties(tokens, open.pos, <<>>), LAMBDA properties :
    Then(expect(tokens, properties.pos, "CloseCurly"), LAMBDA close :
    Parsed([kind |-> "ObjectPattern", properties |-> properties.val], close.pos))))

parseBindingPattern(tokens, pos) ==
    IF check(tokens, pos, "Identifier")
    THEN Parsed([kind |-> "IdentPattern", name |-> tokens[pos].value], pos + 1)
    ELSE IF check(tokens, pos, "OpenBracket") THEN parseListPattern(tokens, pos)
    ELSE IF check(tokens, pos, "OpenCurly") THEN parseObjectPattern(tokens, pos)
    ELSE Err("Expected binding pattern but got % ('%')",
             <<tokens[pos].kind, tokens[pos].value>>)

\* `= value` after the name or the pattern `target` of a declaration.
VariableValue(tokens, pos, kind, target) ==
    Then(expect(tokens, pos, "Assignment"), LAMBDA eq :
    Then(parseExpr(tokens, eq.pos, BP.None), LAMBDA value :
    Parsed([kind |-> kind, value |-> value.val] @@ target, value.pos)))

parseVariableInit(tokens, pos, kind) ==
    IF check(tokens, pos, "Identifier")
    THEN VariableValue(tokens, pos + 1, kind, [name |-> tokens[pos].value])
    ELSE Then(parseBindingPattern(tokens, pos), LAMBDA pattern :
         VariableValue(tokens, pattern.pos, kind, [pattern |-> pattern.val]))

\* parseLetStmt and parseVarStmt: `keyword` is "Let" or "Var".
parseDeclStmt(tokens, pos, keyword, kind) ==
    Then(expect(tokens, pos, keyword), LAMBDA word :
    Then(parseVariableInit(tokens, word.pos, kind), LAMBDA stmt :
    Parsed(stmt.val, eatSeparator(tokens, stmt.pos))))

parseLetStmt(tokens, pos) == parseDeclStmt(tokens, pos, "Let", "LetStmt")

parseVarStmt(tokens, pos) == parseDeclStmt(tokens, pos, "Var", "VarStmt")

\* parseForInitLet and parseForInitVar.
parseForInit(tokens, pos, keyword, kind) ==
    Then(expect(tokens, pos, keyword), LAMBDA word :
    parseVariableInit(tokens, word.pos, kind))

readStringLiteral(tokens, pos) ==
    Then(expect(tokens, pos, "String"), LAMBDA raw :
    Parsed(Unquote(raw.val.value), raw.pos))

parseNamespaceImport(tokens, pos) ==
    Then(expect(tokens, pos, "Star"), LAMBDA star :
    Then(expect(tokens, star.pos, "As"), LAMBDA as :
    Then(expect(tokens, as.pos, "Identifier"), LAMBDA name :
    Parsed(name.val.value, name.pos))))

\* The local name of the import specifier whose imported name is `imported`.
LocalName(tokens, imported) ==
    IF check(tokens, imported.pos, "As")
    THEN Then(expect(tokens, imported.pos + 1, "Identifier"), LAMBDA name :
         Parsed(name.val.value, name.pos))
    ELSE Parsed(imported.val.value, imported.pos)

RECURSIVE ImportSpecifiers(_, _, _)
\* The loop of parseNamedImports.
ImportSpecifiers(tokens, pos, specifiers) ==
    IF check(tokens, pos, "CloseCurly") \/ atEnd(tokens, pos)
    THEN Parsed(specifiers, pos)
    ELSE Then(expect(tokens, pos, "Identifier"), LAMBDA imported :
         Then(LocalName(tokens, imported), LAMBDA local :
             IF check(tokens, local.pos, "Comma")
             THEN ImportSpecifiers(
                      tokens, local.pos + 1,
                      Append(specifiers, [imported |-> imported.val.value,
                                          local |-> local.val]))
             ELSE Parsed(Append(specifiers, [imported |-> imported.val.value,
                                             local |-> local.val]),
                         local.pos)))

parseNamedImports(tokens, pos) ==
    Then(expect(tokens, pos, "OpenCurly"), LAMBDA open :
    Then(ImportSpecifiers(tokens, open.pos, <<>>), LAMBDA specifiers :
    Then(expect(tokens, specifiers.pos, "CloseCurly"), LAMBDA close :
    Parsed(specifiers.val, close.pos))))

ImportClause(defaultImport, namespaceImport, namedImports) ==
    [defaultImport |-> defaultImport, namespaceImport |-> namespaceImport,
     namedImports |-> namedImports]

\* `* as name` or `{...}` after the default import `defaultImport`, at pos.
ImportRest(tokens, pos, defaultImport, otherwise) ==
    IF check(tokens, pos, "Star")
    THEN Then(parseNamespaceImport(tokens, pos), LAMBDA namespace :
         Parsed(ImportClause(defaultImport, namespace.val, <<>>), namespace.pos))
    ELSE IF check(tokens, pos, "OpenCurly")
    THEN Then(parseNamedImports(tokens, pos), LAMBDA named :
         Parsed(ImportClause(defaultImport, Null, named.val), named.pos))
    ELSE Err(otherwise, <<>>)

\* What parseImportStmt reads before `from`.
parseImportClause(tokens, pos) ==
    IF check(tokens, pos, "Identifier")
    THEN IF check(tokens, pos + 1, "Comma")
         THEN ImportRest(tokens, pos + 2, tokens[pos].value,
                         "Expected '*' or '{' after default import and comma")
         ELSE Parsed(ImportClause(tokens[pos].value, Null, <<>>), pos + 1)
    ELSE ImportRest(tokens, pos, Null, "Invalid import statement")

ImportStmt(source, clause) == [kind |-> "ImportStmt", source |-> source] @@ clause

parseImportStmt(tokens, pos) ==
    Then(expect(tokens, pos, "Import"), LAMBDA word :
    IF check(tokens, word.pos, "String")
    THEN Then(readStringLiteral(tokens, word.pos), LAMBDA source :
         Parsed(ImportStmt(source.val, ImportClause(Null, Null, <<>>)),
                eatSeparator(tokens, source.pos)))
    ELSE Then(parseImportClause(tokens, word.pos), LAMBDA clause :
         Then(expect(tokens, clause.pos, "From"), LAMBDA from :
         Then(readStringLiteral(tokens, from.pos), LAMBDA source :
         Parsed(ImportStmt(source.val, clause.val),
                eatSeparator(tokens, source.pos))))))

parseParamList(tokens, pos) ==
    Then(expect(tokens, pos, "OpenParen"), LAMBDA open :
    Then(IdentifierList(tokens, open.pos, <<>>), LAMBDA params :
    Then(expect(tokens, params.pos, "CloseParen"), LAMBDA close :
    Parsed(params.val, close.pos))))

parseFuncDecl(tokens, pos) ==
    Then(expect(tokens, pos, "Func"), LAMBDA word :
    Then(expect(tokens, word.pos, "Identifier"), LAMBDA name :
    Then(parseParamList(tokens, name.pos), LAMBDA params :
    Then(parseBlock(tokens, skipSeparators(tokens, params.pos)), LAMBDA body :
    Parsed([kind |-> "FuncDecl", name |-> name.val.value, params |-> params.val,
            body |-> body.val],
           body.pos)))))

\* parseReturnStmt after `return`.
ReturnValue(tokens, pos) ==
    IF \/ check(tokens, pos, "Newline") \/ check(tokens, pos, "Semicolon")
       \/ check(tokens, pos, "CloseCurly") \/ atEnd(tokens, pos)
    THEN Parsed(Null, pos)
    ELSE parseExpr(tokens, pos, BP.None)

parseReturnStmt(tokens, pos) ==
    Then(expect(tokens, pos, "Return"), LAMBDA word :
    Then(ReturnValue(tokens, word.pos), LAMBDA value :
    Parsed([kind |-> "ReturnStmt", value |-> value.val],
           eatSeparator(tokens, value.pos))))

parseCommentStmt(tokens, pos) ==
    Parsed([kind |-> "CommentStmt", value |-> tokens[pos].value], advance(tokens, pos))

\* `(condition)` and the block after it: parseIfStmt and parseWhileStmt
\* after their keywords.
ConditionAndBlock(tokens, pos) ==
    Then(expect(tokens, pos, "OpenParen"), LAMBDA open :
    Then(parseExpr(tokens, open.pos, BP.None), LAMBDA condition :
    Then(expect(tokens, condition.pos, "CloseParen"), LAMBDA close :
    Then(parseBlock(tokens, skipSeparators(tokens, close.pos)), LAMBDA body :
    Parsed([condition |-> condition.val, body |-> body.val], body.pos)))))

\* The `else` block of parseIfStmt, at the position after skipSeparators().
Alternate(tokens, pos) ==
    IF check(tokens, pos, "Else")
    THEN parseBlock(tokens, skipSeparators(tokens, pos + 1))
    ELSE Parsed(Null, pos)

parseIfStmt(tokens, pos) ==
    Then(expect(tokens, pos, "If"), LAMBDA word :
    Then(ConditionAndBlock(tokens, word.pos), LAMBDA head :
    Then(Alternate(tokens, skipSeparators(tokens, head.pos)), LAMBDA alternate :
    Parsed([kind |-> "IfStmt", condition |-> head.val.condition,
            consequent |-> head.val.body, alternate |-> alternate.val],
           alternate.pos))))

parseWhileStmt(tokens, pos) ==
    Then(expect(tokens, pos, "While"), LAMBDA word :
    Then(ConditionAndBlock(tokens, word.pos), LAMBDA head :
    Parsed([kind |-> "WhileStmt", condition |-> head.val.condition,
            body |-> head.val.body],
           head.pos)))

\* `) {...}` at the end of a for statement.
ForBody(tokens, pos) ==
    Then(expect(tokens, pos, "CloseParen"), LAMBDA close :
    parseBlock(tokens, skipSeparators(tokens, close.pos)))

\* for (iterator in iterable) {...} after `for (`.
parseForIn(tokens, pos) ==
    Then(expect(tokens, pos + 1, "In"), LAMBDA word :
    Then(parseExpr(tokens, word.pos, BP.None), LAMBDA iterable :
    Then(ForBody(tokens, iterable.pos), LAMBDA body :
    Parsed([kind |-> "ForInStmt", iterator |-> tokens[pos].value,
            iterable |-> iterable.val, body |-> body.val],
           body.pos))))

\* The init clause of a classic for statement.
ForInit(tokens, pos) ==
    IF check(tokens, pos, "Semicolon") THEN Parsed(Null, pos)
    ELSE IF check(tokens, pos, "Let") THEN parseForInit(tokens, pos, "Let", "LetStmt")
    ELSE IF check(tokens, pos, "Var") THEN parseForInit(tokens, pos, "Var", "VarStmt")
    ELSE parseExpr(tokens, pos, BP.None)

\* The condition or the update clause, which the token of kind `end` ends.
ForClause(tokens, pos, end) ==
    IF check(tokens, pos, end) THEN Parsed(Null, pos)
    ELSE parseExpr(tokens, pos, BP.None)

\* for (init; condition; update) {...} after `for (`.
parseForClassic(tokens, pos) ==
    Then(ForInit(tokens, pos), LAMBDA init :
    Then(expect(tokens, init.pos, "Semicolon"), LAMBDA first :
    Then(ForClause(tokens, first.pos, "Semicolon"), LAMBDA condition :
    Then(expect(tokens, condition.pos, "Semicolon"), LAMBDA second :
    Then(ForClause(tokens, second.pos, "CloseParen"), LAMBDA update :
    Then(ForBody(tokens, update.pos), LAMBDA body :
    Parsed([kind |-> "ForStmt", init |-> init.val, condition |-> condition.val,
            update |-> update.val, body |-> body.val],
           body.pos)))))))

parseForStmt(tokens, pos) ==
    Then(expect(tokens, pos, "For"), LAMBDA word :
    Then(expect(tokens, word.pos, "OpenParen"), LAMBDA open :
    IF check(tokens, open.pos, "Identifier") /\ peek(tokens, open.pos, 1).kind = "In"
    THEN parseForIn(tokens, open.pos)
    ELSE parseForClassic(tokens, open.pos)))

\* The value of the enum member whose name is `name`.
MemberValue(tokens, name) ==
    IF check(tokens, name.pos, "Colon")
    THEN parseExpr(tokens, name.pos + 1, BP.None)
    ELSE Parsed(Null, name.pos)

\* The position after `this.match(Comma); this.skipSeparators()`.
AfterMember(tokens, pos) ==
    skipSeparators(tokens, IF check(tokens, pos, "Comma") THEN pos + 1 ELSE pos)

RECURSIVE EnumMembers(_, _, _)
\* The loop of parseEnumDecl.
EnumMembers(tokens, pos, members) ==
    IF check(tokens, pos, "CloseCurly") \/ atEnd(tokens, pos)
    THEN Parsed(members, pos)
    ELSE Then(expect(tokens, pos, "Identifier"), LAMBDA name :
         Then(MemberValue(tokens, name), LAMBDA value :
         With(AfterMember(tokens, value.pos), LAMBDA next :
             EnumMembers(tokens, next,
                         Append(members, [name |-> name.val.value,
                                          value |-> value.val])))))

parseEnumDecl(tokens, pos) ==
    Then(expect(tokens, pos, "Enum"), LAMBDA word :
    Then(expect(tokens, word.pos, "Identifier"), LAMBDA name :
    Then(expect(tokens, name.pos, "OpenCurly"), LAMBDA open :
    Then(EnumMembers(tokens, skipSeparators(tokens, open.pos), <<>>), LAMBDA members :
    Then(expect(tokens, members.pos, "CloseCurly"), LAMBDA close :
    Parsed([kind |-> "EnumDecl", name |-> name.val.value, members |-> members.val],
           close.pos))))))

parseExprStmt(tokens, pos) ==
    Then(parseExpr(tokens, pos, BP.None), LAMBDA expr :
    Parsed([kind |-> "ExprStmt", expr |-> expr.val], eatSeparator(tokens, expr.pos)))

RECURSIVE BlockStmts(_, _, _)
\* The loop of parseBlock, at the position after skipSeparators().
BlockStmts(tokens, pos, stmts) ==
    IF check(tokens, pos, "CloseCurly") \/ atEnd(tokens, pos) THEN Parsed(stmts, pos)
    ELSE Then(parseStmt(tokens, pos), LAMBDA stmt :
         With(skipSeparators(tokens, stmt.pos), LAMBDA next :
             BlockStmts(tokens, next, Append(stmts, stmt.val))))

parseBlock(tokens, pos) ==
    Then(expect(tokens, pos, "OpenCurly"), LAMBDA open :
    Then(BlockStmts(tokens, skipSeparators(tokens, open.pos), <<>>), LAMBDA stmts :
    Then(expect(tokens, stmts.pos, "CloseCurly"), LAMBDA close :
    Parsed([kind |-> "Block", stmts |-> stmts.val], close.pos))))

\* parseStmt at the position after skipSeparators().
StmtAt(tokens, pos) ==
    CASE check(tokens, pos, "Import") -> parseImportStmt(tokens, pos)
      [] check(tokens, pos, "Let") -> parseLetStmt(tokens, pos)
      [] check(tokens, pos, "Var") -> parseVarStmt(tokens, pos)
      [] check(tokens, pos, "Func") -> parseFuncDecl(tokens, pos)
      [] check(tokens, pos, "Return") -> parseReturnStmt(tokens, pos)
      [] isCommentToken(tokens[pos].kind) -> parseCommentStmt(tokens, pos)
      [] check(tokens, pos, "If") -> parseIfStmt(tokens, pos)
      [] check(tokens, pos, "While") -> parseWhileStmt(tokens, pos)
      [] check(tokens, pos, "For") -> parseForStmt(tokens, pos)
      [] check(tokens, pos, "Enum") -> parseEnumDecl(tokens, pos)
      [] check(tokens, pos, "OpenCurly") -> parseBlock(tokens, pos)
      [] OTHER -> parseExprStmt(tokens, pos)

\* A parseStmt that skips the separators and returns an empty statement.
parseStmtOfNothing(tokens, pos) ==
    With(skipSeparators(tokens, pos), LAMBDA at : Parsed([kind |-> "Empty"], at))

parseStmt(tokens, pos) == With(skipSeparators(tokens, pos), LAMBDA at : StmtAt(tokens, at))

RECURSIVE ProgramStmts(_, _, _)
\* The loop of parseProgram, at the position after skipSeparators().
ProgramStmts(tokens, pos, stmts) ==
    IF atEnd(tokens, pos) THEN Ok([kind |-> "Program", stmts |-> stmts])
    ELSE Then(parseStmt(tokens, pos), LAMBDA stmt :
         With(skipSeparators(tokens, stmt.pos), LAMBDA next :
             ProgramStmts(tokens, next, Append(stmts, stmt.val))))

parseProgram(tokens) == ProgramStmts(tokens, skipSeparators(tokens, 1), <<>>)

(***************************************************************************)
(* A parser at work: createParser(source) tokenizes the source and makes   *)
(* the Parser, and parseExpr() or parseProgram() is called on it.          *)
(***************************************************************************)

NewParser(source) == [status |-> "new", source |-> source]

\* createParser(source)
createParser(p) ==
    With(tokenize(p.source),
         LAMBDA tokens :
             IF tokens.ok
             THEN [status |-> "created", source |-> p.source, tokens |-> tokens.val]
             ELSE [status |-> "thrown", source |-> p.source, error |-> tokens])

\* The parser after the call of `method` has given `result`.
Returned(p, method, result) ==
    IF result.ok
    THEN [status |-> "parsed", source |-> p.source, tokens |-> p.tokens,
          method |-> method, node |-> result.val]
    ELSE [status |-> "thrown", source |-> p.source, tokens |-> p.tokens,
          method |-> method, error |-> result]

CreateParser ==
    /\ parser.status = "new"
    /\ parser' = createParser(parser)
    /\ UNCHANGED <<ppVars, expansion, lexer, build>>

ParseExpr ==
    /\ parser.status = "created"
    /\ \E result \in {parseExpr(parser.tokens, 1, BP.None)} :
           parser' = Returned(parser, "parseExpr", result)
    /\ UNCHANGED <<ppVars, expansion, lexer, build>>

ParseProgram ==
    /\ parser.status = "created"
    /\ \E result \in {parseProgram(parser.tokens)} :
           parser' = Returned(parser, "parseProgram", result)
    /\ UNCHANGED <<ppVars, expansion, lexer, build>>

NextParse == CreateParser \/ ParseExpr \/ ParseProgram

(***************************************************************************)
(* The sources: chains of binary operators, of assignments and of          *)
(* ternaries over the names a, b, ..., and one source for each kind of     *)
(* statement and of operand.                                               *)
(***************************************************************************)

\* The number of operators of the longest assignment or ternary chain.
MaxChain == 3

Names == <<"a", "b", "c", "d", "e", "f", "g", "h", "i", "j", "k">>

BinaryLexemes ==
    { <<"+">>, <<"-">>, <<"*">>, <<"/">>, <<"%">>, <<"=", "=">>, <<"!", "=">>,
      <<"<">>, <<"<", "=">>, <<">">>, <<">", "=">>, <<"|", "|">>, <<"&", "&">>,
      <<"&">>, <<"|">>, <<"^">>, <<"<", "<">>, <<">", ">">>, <<">", ">", ">">> }

AssignmentLexemes ==
    { <<"=">>, <<"+", "=">>, <<"-", "=">>, <<"&", "=">>, <<"|", "=">>, <<"^", "=">>,
      <<"<", "<", "=">>, <<">", ">", "=">>, <<">", ">", ">", "=">> }

RECURSIVE OperatorChain(_, _)
\* The source `n1 op1 n2 op2 ...` of the names from the k-th on and the
\* operators ops, one name more than operators.
OperatorChain(ops, k) ==
    IF ops = <<>> THEN <<Names[k]>>
    ELSE <<Names[k], " ">> \o Head(ops) \o <<" ">> \o OperatorChain(Tail(ops), k + 1)

\* a op1 b op2 c
BinaryChain(op1, op2) == OperatorChain(<<op1, op2>>, 1)

\* a op1 b op2 ... 1
AssignChain(ops) == Front(OperatorChain(ops, 1)) \o <<"1">>

RECURSIVE TernaryChain(_, _)
\* `a ? b : c ? d : ... : z` with n question marks, from the k-th name on.
TernaryChain(n, k) ==
    IF n = 0 THEN <<Names[k]>>
    ELSE <<Names[k], " ", "?", " ", Names[k + 1], " ", ":", " ">>
             \o TernaryChain(n - 1, k + 2)

SampleSources ==
    { <<"l", "e", "t", " ", "a", " ", "=", " ", "1", "\n", "a", "+", "+">>,
      <<"v", "a", "r", " ", "[", "a", ",", "{", "b", ":", "c", "}", "]",
        " ", "=", " ", "d", ";">>,
      <<"f", "u", "n", "c", " ", "f", "(", "a", ",", "b", ")", " ", "{",
        "\n", "r", "e", "t", "u", "r", "n", " ", "a", "\n", "}">>,
      <<"i", "f", " ", "(", "a", ")", " ", "{", "}", " ", "e", "l", "s",
        "e", " ", "{", "b", "}">>,
      <<"w", "h", "i", "l", "e", " ", "(", "!", "a", ")", " ", "{", "/",
        "/", "c", "\n", "}">>,
      <<"f", "o", "r", " ", "(", "a", " ", "i", "n", " ", "b", ")", " ",
        "{", "}">>,
      <<"f", "o", "r", " ", "(", "l", "e", "t", " ", "a", " ", "=", " ",
        "0", ";", "a", "<", "2", ";", "a", "+", "+", ")", " ", "{", "}">>,
      <<"e", "n", "u", "m", " ", "E", " ", "{", "A", ",", "B", ":", "1",
        "}">>,
      <<"i", "m", "p", "o", "r", "t", " ", "a", ",", "{", "b", " ", "a",
        "s", " ", "c", "}", " ", "f", "r", "o", "m", " ", "'", "s", "'">>,
      <<"i", "m", "p", "o", "r", "t", " ", "*", " ", "a", "s", " ", "a",
        " ", "f", "r", "o", "m", " ", "'", "s", "'">>,
      <<"(", "a", ",", "b", ")", " ", "=", ">", " ", "{", "a", "}">>,
      <<"(", "a", ")", ".", "b", "(", "c", ",", "1", ")", "[", "d", "]">>,
      <<"[", "a", ",", "\n", "{", "b", ",", "'", "s", "'", ":", "-", "1",
        "}", "]">>,
      <<"<backtick>", "t", "$", "{", "a", "}", "<backtick>">>,
      <<"a", " ", "=", " ", "b", " ", "?", " ", "c", " ", ":", " ", "d">>,
      <<"a", " ", "+">>,
      <<"a", " ", "?", " ", "b">>,
      <<"l", "e", "t", " ", "1">>,
      <<"a", " ", "#">>,
      <<")">> }

ChainSources ==
    {BinaryChain(op1, op2) : op1, op2 \in BinaryLexemes}
        \cup {AssignChain(ops) : ops \in SequencesUpTo(AssignmentLexemes, MaxChain)}
        \cup {TernaryChain(n, 1) : n \in 1..MaxChain}

InitParse ==
    /\ calls = Idle /\ heap = Idle /\ fs = Idle /\ turn = 0
    /\ expansion = Idle /\ lexer = Idle /\ build = Idle
    /\ \E source \in ChainSources \cup SampleSources : parser = NewParser(source)

SpecParse == InitParse /\ [][NextParse]_vars

Ident(name) == [kind |-> "Ident", name |-> name]

Binary(op, left, right) == [kind |-> "Binary", op |-> op, left |-> left, right |-> right]

Assign(op, target, value) == [kind |-> "Assign", op |-> op, target |-> target, value |-> value]

Ternary(condition, consequent, alternate) ==
    [kind |-> "Ternary", condition |-> condition, consequent |-> consequent,
     alternate |-> alternate]

\* The place of a binary operator in the order logical-or < logical-and <
\* equality < relational < bitwise < additive and shift < multiplicative.
Rank(op) ==
    CASE op \in {"||"} -> 1
      [] op \in {"&&"} -> 2
      [] op \in {"==", "!="} -> 3
      [] op \in {"<", "<=", ">", ">="} -> 4
      [] op \in {"&", "|", "^"} -> 5
      [] op \in {"+", "-", "<<", ">>", ">>>"} -> 6
      [] op \in {"*", "/", "%"} -> 7

\* parseExpr() has returned.
ExprParsed == parser.status = "parsed" /\ parser.method = "parseExpr"

\* parseExpr() has returned on the source `source`.
ParsedExpr(source) == ExprParsed /\ parser.source = source

\* The operators of a chain: every second of the words between the blanks
\* of its source.
OperatorsOf(source) ==
    With(SplitOn(source, " "),
         LAMBDA words : [k \in 1..(Len(words) \div 2) |-> words[2 * k]])

\* The source is the chain `a op1 b op2 c` of the binary operators ops.
IsBinaryChain(source, ops) ==
    /\ Len(ops) = 2
    /\ ops[1] \in BinaryLexemes
    /\ ops[2] \in BinaryLexemes
    /\ source = BinaryChain(ops[1], ops[2])

\* The source is the chain of the assignment operators ops.
IsAssignChain(source, ops) ==
    /\ ops # <<>>
    /\ \A k \in DOMAIN ops : ops[k] \in AssignmentLexemes
    /\ source = AssignChain(ops)

\* Where op2 is strictly higher than op1, the node of op1 with the node of
\* op2 as its right operand; else the node of op2 with the node of op1 as
\* its left operand.
ChainNode(op1, op2) ==
    IF Rank(op2) > Rank(op1)
    THEN Binary(op1, Ident("a"), Binary(op2, Ident("b"), Ident("c")))
    ELSE Binary(op2, Binary(op1, Ident("a"), Ident("b")), Ident("c"))

\* C7: of `a op1 b op2 c`, parseExpr returns Binary(op1, a, Binary(op2, b, c))
\* when op2 is strictly higher than op1 in the order logical-or <
\* logical-and < equality < relational < bitwise < additive and shift <
\* multiplicative, and Binary(op2, Binary(op1, a, b), c) otherwise, so at
\* equal places to the left.
ClaimC7 ==
    ExprParsed =>
        With(OperatorsOf(parser.source),
             LAMBDA ops :
                 IsBinaryChain(parser.source, ops) =>
                     parser.node = ChainNode(JoinChars(ops[1]), JoinChars(ops[2])))

\* `a - b + c` and `a + b * c` differ: the second has been parsed with the
\* product as the right operand of the sum.
WitnessC7 ==
    /\ ParsedExpr(<<"a", " ", "+", " ", "b", " ", "*", " ", "c">>)
    /\ parser.node = Binary("+", Ident("a"), Binary("*", Ident("b"), Ident("c")))

RECURSIVE AssignNested(_, _)
\* Assign(n_k, Assign(n_k+1, ... 1)) for the operators ops.
AssignNested(ops, k) ==
    IF ops = <<>> THEN [kind |-> "Number", value |-> 1]
    ELSE Assign(JoinChars(Head(ops)), Ident(Names[k]), AssignNested(Tail(ops), k + 1))

RECURSIVE TernaryNested(_, _)
\* Ternary(n_k, n_k+1, Ternary(...)) for n question marks.
TernaryNested(n, k) ==
    IF n = 0 THEN Ident(Names[k])
    ELSE Ternary(Ident(Names[k]), Ident(Names[k + 1]), TernaryNested(n - 1, k + 2))

\* C8: a chain of assignments and a chain of ternaries are parsed to the
\* right: `a = b = 1` as Assign(a, Assign(b, 1)) and `a ? b : c ? d : e` as
\* Ternary(a, b, Ternary(c, d, e)), for every number of operators.
ClaimC8 ==
    ExprParsed =>
        /\ With(OperatorsOf(parser.source),
                LAMBDA ops :
                    IsAssignChain(parser.source, ops) =>
                        parser.node = AssignNested(ops, 1))
        /\ \A n \in 1..MaxChain :
               parser.source = TernaryChain(n, 1) => parser.node = TernaryNested(n, 1)

\* `a = b = 1` has been parsed as Assign(a, Assign(b, 1)).
WitnessC8 ==
    /\ ParsedExpr(<<"a", " ", "=", " ", "b", " ", "=", " ", "1">>)
    /\ parser.node =
           Assign("=", Ident("a"), Assign("=", Ident("b"), [kind |-> "Number", value |-> 1]))

(***************************************************************************)
(* buildCommand (cli/commands/build.ts): the loop over the .fepl files of   *)
(* the source directory.  `build` holds                                    *)
(*   units      the sources of feplFiles, each the lines of one file       *)
(*   k          the file the loop is at                                    *)
(*   stage      the statement of the loop body that runs next              *)
(*   source, tokens, preprocessed, generated                               *)
(*              the constants of the loop body, Null before they are set   *)
(*   call       the preprocessTokens call of the file, as it ended         *)
(*   written    the output files, by the index of their source file        *)
(*   generatedCount, error                                                 *)
(***************************************************************************)

\* The number of .fepl files of the largest source directory.
MaxUnits == 2

\* Source files: ones that compile, and ones that make the tokenizer, the
\* preprocessor (an unmatched $fi, an unclosed $if, a missing include, a
\* circular include) or the parser (at the first or at a later statement)
\* throw.
UnitSources ==
    { << <<"let", " ", "x", " ", "=", " ", "1">> >>,
      << <<"$define", " ", "A", " ", "1">>, <<"let", " ", "x", " ", "=", " ", "A">> >>,
      << <<"$include", " ", "h.feph">>, <<"H">> >>,
      << <<"let", " ", "x", " ", "=", " ", "#">> >>,
      << <<"x">>, <<"#">> >>,
      << <<"x">>, <<"$fi">> >>,
      << <<"$if", " ", "1", " ", "${">>, <<"x">> >>,
      << <<"x">>, <<"$include", " ", "none.feph">> >>,
      << <<"$include", " ", "a.feph">> >>,
      << <<"let", " ", "1">> >>,
      << <<"let", " ", "x", " ", "=", " ", "1">>, <<"let", " ", "1">> >>,
      << <<"x">>, <<")">> >> }

\* buildCommand at line 35, with feplFiles read from the source directory.
NewBuild(units) ==
    [status |-> "new", units |-> units, k |-> 1, stage |-> "start",
     source |-> Null, tokens |-> Null, call |-> Null, preprocessed |-> Null,
     generated |-> Null, written |-> <<>>, generatedCount |-> 0,
     error |-> Null]

\* backend.generate(program): the text of the output file, which is
\* followed no further than to the Program it is generated from.
generate(program) == [generate |-> program]

\* A statement of the loop body throws: the loop has no try, so the error
\* rejects the promise of buildCommand.
ThrownCaught(b, error) ==
    [b EXCEPT !.error = error, !.stage = "write"]

Thrown(b, error) ==
    [b EXCEPT !.status = "thrown", !.error = error]

\* Lines 30 to 35: no file, no output.
BuildStart ==
    /\ build.status = "new"
    /\ build' = IF build.units = <<>>
                THEN [build EXCEPT !.status = "done"]
                ELSE [build EXCEPT !.status = "running", !.stage = "read"]
    /\ UNCHANGED <<ppVars, expansion, lexer, parser>>

\* const source = await readFile(sourcePath, "utf8")
BuildRead ==
    /\ build.status = "running" /\ build.stage = "read"
    /\ build' = [build EXCEPT !.stage = "tokenize",
                              !.source = build.units[build.k],
                              !.tokens = Null, !.call = Null,
                              !.preprocessed = Null, !.generated = Null]
    /\ UNCHANGED <<ppVars, expansion, lexer, parser>>

\* const tokens = new Tokenizer(source).tokenize()
BuildTokenize ==
    /\ build.status = "running" /\ build.stage = "tokenize"
    /\ \E tokens \in {TokenizeLines(build.source)} :
           build' = IF tokens.ok
                    THEN [build EXCEPT !.stage = "preprocess", !.tokens = tokens.val]
                    ELSE Thrown(build, tokens)
    /\ UNCHANGED <<ppVars, expansion, lexer, parser>>

\* const preprocessed = await preprocessTokens(tokens, {...})
BuildPreprocess ==
    /\ build.status = "running" /\ build.stage = "preprocess"
    /\ \E ended \in {RunFor(NewCall(build.tokens, Options), fs, MaxSteps)} :
           /\ Settled(ended)
           /\ build' = IF ended.status = "done"
                       THEN [build EXCEPT !.stage = "generate", !.call = ended,
                                          !.preprocessed = ended.result]
                       ELSE Thrown([build EXCEPT !.call = ended], ended.error)
    /\ UNCHANGED <<ppVars, expansion, lexer, parser>>

\* const generated = backend.generate(new Parser(...).parseProgram())
BuildGenerate ==
    /\ build.status = "running" /\ build.stage = "generate"
    /\ \E program \in {parseProgram(build.preprocessed.tokens)} :
           build' = IF program.ok
                    THEN [build EXCEPT !.stage = "write",
                                       !.generated = generate(program.val)]
                    ELSE Thrown(build, program)
    /\ UNCHANGED <<ppVars, expansion, lexer, parser>>

\* await ensureDir(...); await writeFile(distOutPath, ...); generatedCount++
BuildWrite ==
    /\ build.status = "running" /\ build.stage = "write"
    /\ build' = [build EXCEPT !.written = Append(build.written,
                                                 [unit |-> build.k,
                                                  content |-> build.generated]),
                              !.generatedCount = build.generatedCount + 1,
                              !.k = build.k + 1,
                              !.stage = IF build.k < Len(build.units)
                                        THEN "read" ELSE "end"]
    /\ UNCHANGED <<ppVars, expansion, lexer, parser>>

\* The loop is over: the summary is logged and buildCommand resolves.
BuildEnd ==
    /\ build.status = "running" /\ build.stage = "end"
    /\ build' = [build EXCEPT !.status = "done"]
    /\ UNCHANGED <<ppVars, expansion, lexer, parser>>

NextBuild ==
    \/ BuildStart \/ BuildRead \/ BuildTokenize \/ BuildPreprocess
    \/ BuildGenerate \/ BuildWrite \/ BuildEnd

InitBuild ==
    /\ expansion = Idle /\ lexer = Idle /\ parser = Idle
    /\ fs = Files
    /\ turn = 0
    /\ heap = [r \in Calls |-> NoObjects]
    /\ calls = [p \in Calls |-> Absent]
    /\ \E units \in {<<>>} \cup SequencesUpTo(UnitSources, MaxUnits) : build = NewBuild(units)

SpecBuild == InitBuild /\ [][NextBuild]_vars

(***************************************************************************)
(* C6.  Errors are fail-fast.                                              *)
(***************************************************************************)

\* The tokens, the preprocessTokens call and the Program of a source, each
\* Null when the stage before it threw.
TokensOf(lines) == TokenizeLines(lines)

CallOf(lines) ==
    With(TokensOf(lines),
         LAMBDA tokens : IF tokens.ok
                         THEN RunFor(NewCall(tokens.val, Options), Files, MaxSteps)
                         ELSE Null)

ProgramOf(lines) ==
    With(CallOf(lines),
         LAMBDA ended : IF ended # Null /\ ended.status = "done"
                        THEN parseProgram(ended.result.tokens)
                        ELSE Null)

\* Every stage of the source returns.
Compiles(lines) == With(ProgramOf(lines), LAMBDA program : program # Null /\ program.ok)

\* The stage of the source that throws.
FailingStage(lines) ==
    IF ~TokensOf(lines).ok THEN "tokenize"
    ELSE IF CallOf(lines).status # "done" THEN "preprocess"
    ELSE IF ~ProgramOf(lines).ok THEN "generate"
    ELSE "none"

\* C6: when the tokenizer, the preprocessor or the parser throws on a file,
\* buildCommand ends with that error at that stage: the stage has returned
\* nothing (no tokens, no PreprocessResult, no Program: the failed call has
\* no result), no output file is written for the file, and every output
\* file written belongs to an earlier file all of whose stages returned,
\* with the whole Program of that file.
ClaimC6 ==
    /\ \A n \in 1..Len(build.written) :
           /\ build.written[n].unit = n
           /\ n < build.k
           /\ Compiles(build.units[n])
           /\ build.written[n].content = generate(ProgramOf(build.units[n]).val)
    /\ build.status = "thrown" =>
           /\ FailingStage(build.units[build.k]) = build.stage
           /\ ~build.error.ok
           /\ Len(build.written) = build.k - 1
           /\ build.generated = Null
           /\ build.stage = "tokenize" => build.tokens = Null
           /\ build.stage \in {"tokenize", "preprocess"} => build.preprocessed = Null
           /\ build.stage = "preprocess" =>
                  build.call.status = "failed" /\ build.call.result = Null
    /\ (build.status = "running" /\ build.stage \notin {"read", "end"}) =>
           \/ FailingStage(build.units[build.k]) = "none"
           \/ \E n \in 1..3 :
                  /\ <<"tokenize", "preprocess", "generate">>[n] =
                         FailingStage(build.units[build.k])
                  /\ build.stage \in {<<"tokenize", "preprocess", "generate">>[j] :
                                         j \in 1..n}

\* The second file's second statement does not parse: the first file is
\* written, the second is not, and the build has ended with the error.
WitnessC6 ==
    /\ build.status = "thrown"
    /\ build.stage = "generate"
    /\ build.k = 2
    /\ build.units[2] = << <<"let", " ", "x", " ", "=", " ", "1">>, <<"let", " ", "1">> >>
    /\ Len(build.written) = 1
    /\ build.preprocessed # Null

(***************************************************************************)
(* parseMacroInvocation on its own: `expansion` holds the tokens, the      *)
(* index of the macro name and, once the function has returned or thrown,  *)
(* its result.                                                             *)
(***************************************************************************)

\* The number of tokens of the longest argument list.
MaxInner == 4

ScanWords == {"1", ",", "(", ")", "[", "]", "{", "}"}

\* FIRST followed by "(", by every sequence of up to MaxInner numbers,
\* commas and brackets, and by ")"; FIRST([1, 2], 3); FIRST with no
\* argument list.
ScanInputs ==
    {Toks(<<"FIRST", "(">> \o inner \o <<")">>) :
        inner \in {<<>>} \cup SequencesUpTo(ScanWords, MaxInner)}
    \cup {Toks(<<"FIRST", "(", "[", "1", ",", "2", "]", ",", "3", ")">>),
          Toks(<<"FIRST", "(", "{", "(", "1", ",", "2", ")", ",", "3", "}", ",", "1", ")">>),
          Toks(<<"FIRST">>), Toks(<<"FIRST", "1">>), Toks(<<"FIRST", "(", "1">>)}

NewScan(tokens) ==
    [status |-> "scanning", tokens |-> tokens, macroIndex |-> 1, invocation |-> Null]

\* const invocation = parseMacroInvocation(tokens, i)
Scan ==
    /\ expansion.status = "scanning"
    /\ \E invocation \in {parseMacroInvocation(expansion.tokens, expansion.macroIndex)} :
           expansion' = [expansion EXCEPT
                             !.status = IF invocation.ok THEN "scanned" ELSE "thrown",
                             !.invocation = invocation]
    /\ UNCHANGED <<ppVars, lexer, parser, build>>

NextScan == Scan

InitScan ==
    /\ calls = Idle /\ heap = Idle /\ turn = 0 /\ fs = Idle
    /\ lexer = Idle /\ parser = Idle /\ build = Idle
    /\ \E tokens \in ScanInputs : expansion = NewScan(tokens)

SpecScan == InitScan /\ [][NextScan]_vars

(***************************************************************************)
(* C11.  Arguments are split at the commas outside every bracket.          *)
(***************************************************************************)

RECURSIVE OpenBefore(_, _, _, _)
\* How many tokens of kind `open` among the first n of `inner` are not
\* closed by a later token of kind `close` among them; a closing token
\* with nothing to close counts for nothing.
OpenBefore(inner, n, open, close) ==
    IF n = 0 THEN 0
    ELSE With(OpenBefore(inner, n - 1, open, close),
              LAMBDA d : IF inner[n].kind = open THEN d + 1
                         ELSE IF inner[n].kind = close /\ d > 0 THEN d - 1
                         ELSE d)

\* The commas of `inner` that are inside no "(", no "[" and no "{".
TopCommas(inner) ==
    {j \in 1..Len(inner) :
        /\ inner[j].kind = "Comma"
        /\ OpenBefore(inner, j - 1, "OpenParen", "CloseParen") = 0
        /\ OpenBefore(inner, j - 1, "OpenBracket", "CloseBracket") = 0
        /\ OpenBefore(inner, j - 1, "OpenCurly", "CloseCurly") = 0}

\* The n-th smallest element of a set of numbers.
Nth(S, n) == CHOOSE j \in S : Cardinality({i \in S : i < j}) = n - 1

\* `inner` cut at the positions of `cuts`, which are left out.
CutAt(inner, cuts) ==
    [n \in 1..(Cardinality(cuts) + 1) |->
        SubSeq(inner,
               IF n = 1 THEN 1 ELSE Nth(cuts, n - 1) + 1,
               IF n = Cardinality(cuts) + 1 THEN Len(inner) ELSE Nth(cuts, n) - 1)]

\* The tokens between the "(" after the macro name and the ")" at endIndex.
InnerTokens(tokens, endIndex) == SubSeq(tokens, 3, endIndex - 1)

Scanned == expansion.status = "scanned" /\ expansion.invocation.val # Null

\* C11: the arguments of an invocation are the tokens between its
\* parentheses cut at the commas that are inside no "(", "[" or "{" (each
\* kind of bracket counted on its own), and at no other place: a comma
\* inside a bracket stays in its argument.  An empty argument list has no
\* argument.
ClaimC11 ==
    Scanned =>
        With(InnerTokens(expansion.tokens, expansion.invocation.val.endIndex),
             LAMBDA inner :
                 expansion.invocation.val.arguments =
                     IF inner = <<>> THEN <<>> ELSE CutAt(inner, TopCommas(inner)))

\* FIRST([1, 2], 3) has two arguments, [ 1 , 2 ] and 3.
WitnessC11 ==
    /\ Scanned
    /\ expansion.tokens = Toks(<<"FIRST", "(", "[", "1", ",", "2", "]", ",", "3", ")">>)
    /\ expansion.invocation.val.arguments =
           <<Toks(<<"[", "1", ",", "2", "]">>), Toks(<<"3">>)>>

(***************************************************************************)
(* C12.  The expansion of a function-like macro call.                      *)
(***************************************************************************)

\* The tokens that stand for the replacement token `token` of a macro with
\* these parameters, called with these arguments.
ArgumentFor(token, parameters, arguments) ==
    IF token.kind = "Identifier" /\ \E j \in 1..Len(parameters) : parameters[j] = token.value
    THEN arguments[CHOOSE j \in 1..Len(parameters) : parameters[j] = token.value]
    ELSE <<token>>

\* The replacement with its parameters replaced, all at once.
SubstitutedBody(macro, arguments) ==
    Flatten([k \in 1..Len(macro.replacement) |->
                ArgumentFor(macro.replacement[k], macro.parameters.some, arguments)])

\* The tokens start with a call of a function-like macro that has as many
\* arguments as the macro has parameters.
StartsWithCall(tokens, macros) ==
    /\ tokens # <<>>
    /\ tokens[1].kind = "Identifier"
    /\ tokens[1].value \in DOMAIN macros
    /\ macros[tokens[1].value].parameters # Null
    /\ With(parseMacroInvocation(tokens, 1),
            LAMBDA invocation :
                /\ invocation.ok
                /\ invocation.val # Null
                /\ Len(invocation.val.arguments) =
                       Len(macros[tokens[1].value].parameters.some))

\* What expandTokens gives for the call at the start of `tokens` and the
\* tokens after it: the expansion of the substituted replacement, then the
\* expansion of the rest.
CallThenRest(tokens, macros) ==
    With(parseMacroInvocation(tokens, 1).val,
         LAMBDA invocation :
             With(expandTokens(SubstitutedBody(macros[tokens[1].value],
                                               invocation.arguments),
                               macros, 1),
                  LAMBDA body :
                      IF ~body.ok THEN body
                      ELSE With(expandTokens(SubSeq(tokens, invocation.endIndex + 1,
                                                    Len(tokens)),
                                             macros, 0),
                                LAMBDA rest : IF ~rest.ok THEN rest
                                              ELSE Ok(body.val \o rest.val))))

\* C12: a call of a function-like macro expands to the expansion of the
\* macro's replacement in which every identifier that is a parameter name
\* is replaced by the tokens of its argument and every other token is
\* kept: the substituted body is expanded again as a whole, one level
\* deeper, so DOUBLE(5) with DOUBLE(x) = ADD(x, x) gives 5 + 5.
ClaimC12 ==
    (/\ ExpansionEnded
     /\ expansion.macros \in NestedTables
     /\ StartsWithCall(expansion.tokens, expansion.macros)) =>
        With(CallThenRest(expansion.tokens, expansion.macros),
             LAMBDA expected :
                 IF expected.ok
                 THEN expansion.status = "returned" /\ expansion.result = expected.val
                 ELSE expansion.status = "thrown" /\ expansion.error = expected)

\* DOUBLE(5) has given 5 + 5.
WitnessC12 ==
    /\ expansion.status = "returned"
    /\ expansion.macros \in NestedTables
    /\ expansion.tokens = Toks(<<"DOUBLE", "(", "5", ")">>)
    /\ expansion.result = Toks(<<"5", "+", "5">>)

(***************************************************************************)
(* C13.  The macro table after $define and $undefine directives.           *)
(***************************************************************************)

\* The names that the last directive naming them defines, at the end of
\* the stream.
DefinedAtEnd(tokens) ==
    {n \in DirectiveNames(tokens) : DefinedAt(tokens, Len(tokens) + 1, n)}

\* The names that an $undefine names last.
UndefinedAtEnd(tokens) == DirectiveNames(tokens) \ DefinedAtEnd(tokens)

\* The value of the last $define of `name`, as the tokenizer reads it.
LastValue(tokens, name) ==
    tokenizeMacroValue(
        parseDirectiveToken(tokens[LatestDirective(tokens, Len(tokens) + 1, name)]).val.value)

\* No identifier of the stream names a macro of the table at its place.
AllAbsent(tokens, initial) ==
    \A k \in 1..Len(tokens) :
        tokens[k].kind = "Identifier" => tokens[k].value \notin DOMAIN TableAt(tokens, k, initial)

\* C13: at the end of a stream of $define and $undefine directives the
\* macro table holds a name exactly when the last directive that names it
\* is a $define (or no directive names it and it is a global constant),
\* with the value of that $define; the `defines` of the result show that
\* table; and identifiers that the table does not hold at their place are
\* emitted as they stand.
ClaimC13 ==
    \A p \in Calls :
        (calls[p].status = "done" /\ FlatInput(Front(calls[p].tokens))) =>
            LET tokens == Front(calls[p].tokens)
                initial == buildInitialMacros(calls[p].options.globalConstants).val
                table == Load(p).macros
            IN  /\ DOMAIN table = (DOMAIN initial \ UndefinedAtEnd(tokens))
                                      \cup DefinedAtEnd(tokens)
                /\ \A n \in DefinedAtEnd(tokens) :
                       table[n].replacement = LastValue(tokens, n)
                /\ \A n \in DOMAIN table \ DefinedAtEnd(tokens) : table[n] = initial[n]
                /\ calls[p].result.defines = DefinesOf(table)
                /\ AllAbsent(tokens, initial) =>
                       calls[p].result.tokens =
                           SelectSeq(calls[p].tokens, LAMBDA t : t.kind # "Preprocessor")

\* A is defined and undefined: the table holds the global constant alone,
\* and the A after the directives is emitted as it stands.
WitnessC13 ==
    /\ calls[1].status = "done"
    /\ calls[1].tokens =
           TokenizeLines(<< <<"$define", " ", "A", " ", "1">>,
                            <<"$undefine", " ", "A">>,
                            <<"A">> >>).val
    /\ DOMAIN calls[1].result.defines = {"__BACKEND__"}
    /\ calls[1].result.tokens = <<Tok("Identifier", "A"), EOFToken>>

(***************************************************************************)
(* C14.  A macro that stands for its own name.                             *)
(***************************************************************************)

\* `name` is an object-like macro whose replacement is the one identifier
\* `name`.
SelfAlias(macros, name) ==
    /\ name \in DOMAIN macros
    /\ macros[name].parameters = Null
    /\ macros[name].replacement = <<Tok("Identifier", name)>>

\* The loop of the innermost activation is at an identifier that names a
\* self-alias.
AtSelfAlias ==
    /\ expansion.status = "running"
    /\ LET a == Last(expansion.stack)
       IN  /\ a.i <= Len(a.tokens)
           /\ a.tokens[a.i].kind = "Identifier"
           /\ SelfAlias(expansion.macros, a.tokens[a.i].value)

\* The step pushes the token at hand and goes on to the next one.
EmitsOnce ==
    LET a == Last(expansion.stack)
    IN  /\ expansion'.status = "running"
        /\ Len(expansion'.stack) = Len(expansion.stack)
        /\ Last(expansion'.stack) =
               [a EXCEPT !.expanded = Append(a.expanded, a.tokens[a.i]), !.i = a.i + 1]

\* C14: an identifier that names an object-like macro whose replacement is
\* that one identifier is pushed once, as it stands, and the loop goes on:
\* expandTokens is not called for it, so no depth error comes of it; where
\* every macro of the table is such an alias the call returns its input.
ClaimC14 ==
    /\ [][AtSelfAlias => EmitsOnce]_vars
    /\ []((/\ ExpansionEnded
           /\ DOMAIN expansion.macros # {}
           /\ \A n \in DOMAIN expansion.macros : SelfAlias(expansion.macros, n))
              => (expansion.status = "returned" /\ expansion.result = expansion.tokens))

\* With `true` defined as true, the tokens true 1 true have come out as
\* they went in.
WitnessC14 ==
    /\ expansion.status = "returned"
    /\ DOMAIN expansion.macros = {"true"}
    /\ SelfAlias(expansion.macros, "true")
    /\ expansion.tokens = Toks(<<"true", "1", "true">>)
    /\ expansion.result = Toks(<<"true", "1", "true">>)

(***************************************************************************)
(* A program that includes a.feph, over header files a.feph made of        *)
(* directives, comments, an $if chain, a nested $include, code and stray   *)
(* braces.                                                                 *)
(***************************************************************************)

\* The number of fragments of the longest header.
MaxHeader == 2

HeaderFragments ==
    { << <<"$define", " ", "A", " ", "1">> >>,
      << <<"$undefine", " ", "P">> >>,
      << <<"$include", " ", "n.feph">> >>,
      << <<"//">> >>,
      << <<"let", " ", "x", " ", "=", " ", "1">> >>,
      << <<"$if", " ", "P", " ", "${">>, <<"$define", " ", "C", " ", "1">>, <<"}">>,
         <<"$else", " ", "${">>, <<"$define", " ", "C", " ", "2">>, <<"}">>, <<"$fi">> >>,
      << <<"$if", " ", "0", " ", "${">>, <<"y">>, <<"}">>, <<"$fi">> >>,
      << <<"}">> >>,
      << <<"$fi">> >> }

HeaderPath == <<"src", "a.feph">>

\* The include directory: a.feph, n.feph, which includes h.feph, and
\* h.feph.
HeaderFiles(body) ==
    (HeaderPath :> body)
    @@ (<<"src", "n.feph">> :> << <<"$define", " ", "N", " ", "1">>,
                                 <<"$include", " ", "h.feph">> >>)
    @@ (<<"src", "h.feph">> :> Files[<<"src", "h.feph">>])

\* The lines before the $include and after it.
LinesBefore == << <<"$define", " ", "P", " ", "1">>, <<"x", " ", "P">> >>

LinesAfter == << <<"A", " ", "C", " ", "N", " ", "H", " ", "P">>, <<"x">> >>

HeaderProgram == LinesBefore \o << IncludeLine("a.feph") >> \o LinesAfter

InitHeader ==
    \/ /\ expansion = Idle /\ lexer = Idle /\ parser = Idle /\ build = Idle
       /\ \E body \in Concatenations(HeaderFragments, MaxHeader) : fs = HeaderFiles(body)
       /\ turn = 0
       /\ heap = [r \in Calls |-> NoObjects]
       /\ calls = [p \in Calls |->
                      IF p = 1
                      THEN NewCall(TokenizeLines(HeaderProgram).val, Options)
                      ELSE Absent]
    \/ InitOne(CorePrograms)

SpecHeader == InitHeader /\ [][NextPP]_vars

(***************************************************************************)
(* C15.  A header that holds code.                                         *)
(***************************************************************************)

\* Call p is the call on HeaderProgram and has read a.feph.
IncludedHeader(p) ==
    /\ calls[p].tokens = TokenizeLines(HeaderProgram).val
    /\ HeaderPath \in DOMAIN fs
    /\ Contains(calls[p].reads, HeaderPath)
    /\ calls[p].status # "reading"

\* The tokens of a.feph.
HeaderTokens == Front(TokenizeLines(fs[HeaderPath]).val)

\* The token at index k is neither a directive nor trivia.
IsCodeAt(tokens, k) == tokens[k].kind # "Preprocessor" /\ ~isTrivia(tokens[k].kind)

\* The token at index k is a "}" that an $elif, $else or $fi follows, with
\* nothing but trivia between them.
ClosesBranchAt(tokens, k) ==
    /\ tokens[k].kind = "CloseCurly"
    /\ With(nextNonTriviaIndex(tokens, k + 1),
            LAMBDA next :
                /\ next # 0
                /\ tokens[next].kind = "Preprocessor"
                /\ parseDirectiveToken(tokens[next]).ok
                /\ parseDirectiveToken(tokens[next]).val.kind \in {"elif", "else", "ifEnd"})

\* The call has failed with the include-content error that names the
\* resolved path of a.feph, and nothing of a.feph has been executed: the
\* table and the trace are those of the lines before the $include, and no
\* other file has been read.
RejectedUnexecuted(p) ==
    /\ calls[p].status = "failed"
    /\ calls[p].error =
           Err("Included header '%' can only contain preprocessor directives.",
               <<HeaderPath>>)
    /\ calls[p].result = Null
    /\ calls[p].reads = <<HeaderPath>>
    /\ DOMAIN Load(p).macros = {"__BACKEND__", "P"}
    /\ [k \in 1..Len(Load(p).directives) |-> Load(p).directives[k].kind]
           = <<"define", "include">>

InsideHeader(p) ==
    \/ calls[p].status = "reading"
    \/ /\ calls[p].status = "running"
       /\ calls[p].frames # <<>>
       /\ Last(calls[p].frames).includeStack # <<>>

\* The index of the $include in the tokens of HeaderProgram.
IncludeAt ==
    CHOOSE k \in 1..Len(TokenizeLines(HeaderProgram).val) :
        TokenizeLines(HeaderProgram).val[k] =
            [kind |-> "Preprocessor", text |-> IncludeLine("a.feph")]

\* The code tokens of HeaderProgram from index a to index b.
CodeBetween(a, b) ==
    SelectSeq(SubSeq(TokenizeLines(HeaderProgram).val, a, b),
              LAMBDA t : t.kind \notin {"Preprocessor", "EOF"})

\* The output of the call on HeaderProgram: the code before the $include
\* expanded under the table of the lines before it, then the code after it
\* expanded under the table that the header has left.
OutputAround(table) ==
    expandTokens(CodeBetween(1, IncludeAt - 1),
                 [n \in {"__BACKEND__", "P"} |->
                     IF n = "P" THEN MacroDef(Null, Toks(<<"1">>))
                     ELSE buildInitialMacros(Options.globalConstants).val[n]],
                 0).val
    \o expandTokens(CodeBetween(IncludeAt + 1, Len(TokenizeLines(HeaderProgram).val)),
                    table, 0).val

\* C16: while a call is inside an included file, at any depth and also in
\* a branch of an $if chain of the file, no step changes its output; the
\* tokens of the result are those of the lines around the $include, the
\* later ones expanded under the table that the include has left.
ClaimC16 ==
    /\ [][\A p \in Calls :
              InsideHeader(p) => heap'[ContextRef(p)].output = heap[ContextRef(p)].output]_vars
    /\ [](\A p \in Calls :
              (IncludedHeader(p) /\ calls[p].status = "done") =>
                  calls[p].result.tokens =
                      Append(OutputAround(Load(p).macros), EOFToken))

\* a.feph holds a comment, the $if chain and the nested $include: the call
\* has ended, C, N and H are defined and the output is that of the lines
\* around the $include.
WitnessC16 ==
    /\ IncludedHeader(1)
    /\ calls[1].status = "done"
    /\ Len(fs[HeaderPath]) = 8
    /\ fs[HeaderPath][8] = <<"$include", " ", "n.feph">>
    /\ {"C", "N", "H"} \subseteq DOMAIN calls[1].result.defines
    /\ TokenValues(calls[1].result.tokens) =
           <<"x", "1", "\n", "A", "1", "1", "1", "1", "\n", "x", "">>

(***************************************************************************)
(* C17.  Token streams without a directive, preprocessed with no global    *)
(* constant.                                                               *)
(***************************************************************************)

\* The number of tokens, EOF aside, of the longest stream without directive.
MaxPlain == 3

\* Names (one of them the name of the constant of buildCommand), a
\* keyword, a number, a string, punctuation, a newline and a comment.
PlainTokens ==
    { WordToken(w) : w \in {"x", "true", "__BACKEND__", "let", "1", "(", ",", ")"} }
    \cup { Tok("Newline", "\n"), Tok("LineComment", "//") }

\* The options of a caller that passes no globalConstants.
PlainOptions == [baseDir |-> <<"src">>, globalConstants |-> <<>>]

InitPlain ==
    \/ /\ expansion = Idle /\ lexer = Idle /\ parser = Idle /\ build = Idle
       /\ fs = Files
       /\ turn = 0
       /\ heap = [r \in Calls |-> NoObjects]
       /\ \E body \in {<<>>} \cup SequencesUpTo(PlainTokens, MaxPlain) :
              calls = [p \in Calls |->
                          IF p = 1 THEN NewCall(Append(body, EOFToken), PlainOptions)
                          ELSE Absent]
    \/ InitOne(CorePrograms)

SpecPlain == InitPlain /\ [][NextPP]_vars

\* Call p is made with no global constant on tokens that end with EOF and
\* hold no directive.
PlainCall(p) ==
    /\ calls[p].status # "absent"
    /\ calls[p].options.globalConstants = <<>>
    /\ Last(calls[p].tokens) = EOFToken
    /\ \A k \in 1..Len(calls[p].tokens) : calls[p].tokens[k].kind # "Preprocessor"

\* C17: preprocessing tokens that hold no directive, with no global
\* constant, does not fail and returns the input tokens: the same kinds and
\* values in the same order, the EOF token of the input last; the trace
\* and the table of the result are empty.
ClaimC17 ==
    \A p \in Calls :
        PlainCall(p) =>
            /\ calls[p].status # "failed"
            /\ calls[p].status = "done" =>
                   /\ calls[p].result.tokens = calls[p].tokens
                   /\ calls[p].result.directives = <<>>
                   /\ DOMAIN calls[p].result.defines = {}

\* The tokens __BACKEND__ ( true and EOF have come back as they went in.
WitnessC17 ==
    /\ PlainCall(1)
    /\ calls[1].status = "done"
    /\ TokenValues(calls[1].tokens) = <<"__BACKEND__", "(", "true", "">>
    /\ calls[1].result.tokens = calls[1].tokens

(***************************************************************************)
(* Programs with one $if chain of one or two branches, over bodies that    *)
(* hold code, directives, nested chains and misplaced chain directives.    *)
(***************************************************************************)

\* A nested chain with the branches `then`.
NestedChain(then) ==
    << <<"$if", " ", "1", " ", "${">>, <<"$define", " ", "E", " ", "1">>, <<"}">> >>
    \o then \o << <<"$fi">> >>

ElseBranch == << <<"$else", " ", "${">>, <<"}">> >>

ElifBranch == << <<"$elif", " ", "1", " ", "${">>, <<"}">> >>

\* x, $define D 1, $undefine P and $include h.feph together.
EveryKind ==
    << <<"x">>, <<"$define", " ", "D", " ", "1">>, <<"$undefine", " ", "P">>,
       <<"$include", " ", "h.feph">> >>

\* Bodies in which every chain directive has its place.
SoundBodies ==
    { <<>>,
      << <<"x">> >>,
      << <<"$define", " ", "D", " ", "1">> >>,
      << <<"$undefine", " ", "P">> >>,
      << <<"$include", " ", "h.feph">> >>,
      EveryKind,
      NestedChain(ElseBranch) }

\* Bodies with a chain directive out of place: an $else, an $elif or a $fi
\* where no "}" has closed the branch, a nested chain with an $elif after
\* its $else or with two $else, and a nested $if without $fi.
UnsoundBodies ==
    { << <<"$else", " ", "${">> >>,
      << <<"$elif", " ", "1", " ", "${">> >>,
      << <<"$fi">> >>,
      NestedChain(ElseBranch \o ElifBranch),
      NestedChain(ElseBranch \o ElseBranch),
      << <<"$if", " ", "1", " ", "${">>, <<"}">> >> }

BranchBodies == SoundBodies \cup UnsoundBodies

\* The chains: the condition of the $if, the second branch if there is
\* one, and the bodies of the branches.
Chains ==
    [c : {"0", "1"}, second : {"none"}, b1 : BranchBodies, b2 : {<<>>}]
    \cup [c : {"0", "1"}, second : {"elif0", "elif1", "else"},
          b1 : BranchBodies, b2 : BranchBodies]

SecondLine(second) ==
    IF second = "else" THEN <<"$else", " ", "${">>
    ELSE <<"$elif", " ", IF second = "elif1" THEN "1" ELSE "0", " ", "${">>

\* The program of a chain: P is defined before the chain and used, with
\* the names that the bodies define, after it.
ChainProgram(ch) ==
    << <<"$define", " ", "P", " ", "1">>, <<"$if", " ", ch.c, " ", "${">> >>
    \o ch.b1 \o << <<"}">> >>
    \o (IF ch.second = "none" THEN <<>>
        ELSE << SecondLine(ch.second) >> \o ch.b2 \o << <<"}">> >>)
    \o << <<"$fi">>, <<"P", " ", "D", " ", "E", " ", "H">> >>

\* Chain directives out of place outside every chain.
LooseLines ==
    { << <<"x">>, <<"$else", " ", "${">>, <<"}">> >>,
      << <<"x">>, <<"$elif", " ", "1", " ", "${">>, <<"}">> >>,
      << <<"$if", " ", "1", " ", "${">>, <<"x">>, <<"}">> >>,
      << <<"$if", " ", "0", " ", "${">>, <<"}">> >> \o ElseBranch \o ElifBranch
         \o << <<"$fi">> >>,
      << <<"$if", " ", "0", " ", "${">>, <<"}">> >> \o ElseBranch \o ElseBranch
         \o << <<"$fi">> >> }

BranchPrograms == { ChainProgram(ch) : ch \in Chains } \cup LooseLines

InitBranch == InitOne(BranchPrograms \cup CorePrograms)

SpecBranch == InitBranch /\ [][NextPP]_vars

\* The chains, each with the tokens of its program.
ChainTokens == { <<ch, TokenizeLines(ChainProgram(ch)).val>> : ch \in Chains }

\* The chains on whose program call p is a call.
ChainsOf(p) ==
    IF calls[p].status = "absent" THEN {}
    ELSE { e[1] : e \in {e \in ChainTokens : e[2] = calls[p].tokens} }

\* Call p is a call on the program of chain ch.
CallOn(p, ch) == ch \in ChainsOf(p)

\* The branch of chain ch whose body is processed, 0 when there is none:
\* the conditions are the literals 0 and 1.
Selected(ch) ==
    IF ch.c = "1" THEN 1
    ELSE IF ch.second \in {"elif1", "else"} THEN 2
    ELSE 0

(***************************************************************************)
(* C19.  The branches that are not selected.                               *)
(***************************************************************************)

\* Chain ch with the bodies of the branches that are not selected emptied.
Emptied(ch) ==
    [ch EXCEPT !.b1 = IF Selected(ch) = 1 THEN ch.b1 ELSE <<>>,
               !.b2 = IF Selected(ch) = 2 THEN ch.b2 ELSE <<>>]

\* Where a call on the tokens ends.
Outcome(tokens) == RunFor(NewCall(tokens, Options), Files, MaxSteps)

\* The directive that chain ch records for its second branch.
SecondDirective(ch) ==
    IF ch.second = "else" THEN [kind |-> "else"]
    ELSE [kind |-> "elif", condition |-> IF ch.second = "elif1" THEN <<"1">> ELSE <<"0">>]

\* The number of lines of the body that start with the word.
LinesWith(body, word) == Cardinality({k \in 1..Len(body) : body[k][1] = word})

\* The body has a $fi for each $if it opens and no other: the branches of
\* the chain are then those that the chain was built with.
Closed(body) == LinesWith(body, "$if") = LinesWith(body, "$fi")

\* C19: a call that ends on a program with an $if chain, each body of
\* which closes the $if it opens, returns the
\* tokens, the macro table and the trace, and has read the files, of the
\* same program with the bodies of the branches that are not selected left
\* empty; and the trace holds the $if, $elif or $else of each such branch.
ClaimC19 ==
    \A p \in Calls :
        calls[p].status = "done" =>
            \A ch \in {c \in ChainsOf(p) : Closed(c.b1) /\ Closed(c.b2)} :
            /\ With(Outcome(TokenizeLines(ChainProgram(Emptied(ch))).val),
                    LAMBDA kept :
                        /\ kept.status = "done"
                        /\ calls[p].result = kept.result
                        /\ calls[p].reads = kept.reads)
            /\ Selected(ch) # 1 =>
                   Contains(calls[p].result.directives,
                            [kind |-> "if", condition |-> <<ch.c>>])
            /\ (ch.second # "none" /\ Selected(ch) # 2) =>
                   Contains(calls[p].result.directives, SecondDirective(ch))

\* $if 0 with x, $define D 1, $undefine P and $include h.feph in its body
\* and an $elif 0 with the same body: P is still defined and is expanded,
\* D and H are not defined, no file has been read and the trace holds the
\* $define of P, the $if and the $elif.
WitnessC19 ==
    /\ CallOn(1, [c |-> "0", second |-> "elif0", b1 |-> EveryKind, b2 |-> EveryKind])
    /\ calls[1].status = "done"
    /\ TokenValues(calls[1].result.tokens) = <<"1", "D", "E", "H", "">>
    /\ DOMAIN calls[1].result.defines = {"__BACKEND__", "P"}
    /\ calls[1].reads = <<>>
    /\ [k \in 1..3 |-> calls[1].result.directives[k].kind] = <<"define", "if", "elif">>
    /\ Len(calls[1].result.directives) = 3

(***************************************************************************)
(* C18.  The order of the directive trace.                                 *)
(***************************************************************************)

\* The directives that the Preprocessor tokens hold, in the order of the
\* tokens; a $fi is no directive of the trace.
DirectivesIn(tokens) ==
    Flatten([k \in 1..Len(tokens) |->
                IF /\ tokens[k].kind = "Preprocessor"
                   /\ parseDirectiveToken(tokens[k]).ok
                   /\ parseDirectiveToken(tokens[k]).val.kind # "ifEnd"
                THEN <<parseDirectiveToken(tokens[k]).val>>
                ELSE <<>>])

\* The directives of the file that an $include of the program names; the
\* files that the programs include hold no $include.
PulledIn(directive) ==
    IF /\ directive.kind = "include"
       /\ PathResolve(Options.baseDir, directive.source) \in DOMAIN Files
    THEN DirectivesIn(TokenizeLines(Files[PathResolve(Options.baseDir,
                                                      directive.source)]).val)
    ELSE <<>>

\* The directives of a program in their order of occurrence, those of an
\* included file at the place of its $include.
OrderOfOccurrence(tokens) ==
    With(DirectivesIn(tokens),
         LAMBDA ds : Flatten([k \in 1..Len(ds) |-> <<ds[k]>> \o PulledIn(ds[k])]))

RECURSIVE Embeds(_, _, _, _)
\* The elements of a from index i on are elements of b from index j on, in
\* the same order.
Embeds(a, i, b, j) ==
    IF i > Len(a) THEN TRUE
    ELSE IF j > Len(b) THEN FALSE
    ELSE IF a[i] = b[j] THEN Embeds(a, i + 1, b, j + 1)
    ELSE Embeds(a, i, b, j + 1)

\* C18: the trace of a call that has ended lists directives of the
\* program in their order of occurrence.
CounterC18 ==
    \A p \in Calls :
        calls[p].status = "done" =>
            Embeds(calls[p].result.directives, 1, OrderOfOccurrence(calls[p].tokens), 1)

(***************************************************************************)
(* C20.  Chain directives out of place.                                    *)
(***************************************************************************)

\* The kinds of the directives that the tokens hold, the $fi among them.
ChainKinds(tokens) ==
    SelectSeq([k \in 1..Len(tokens) |->
                  IF tokens[k].kind = "Preprocessor" /\ parseDirectiveToken(tokens[k]).ok
                  THEN parseDirectiveToken(tokens[k]).val.kind
                  ELSE "none"],
              LAMBDA kind : kind \in {"if", "elif", "else", "ifEnd"})

RECURSIVE Matched(_, _, _)
\* The kinds from index k on match, `open` being the chains that are open,
\* innermost last, each with TRUE once its $else has come: an $elif and an
\* $else stand in an open chain that has had no $else, a $fi closes an open
\* chain and no chain stays open.
Matched(kinds, k, open) ==
    IF k > Len(kinds) THEN open = <<>>
    ELSE IF kinds[k] = "if" THEN Matched(kinds, k + 1, Append(open, FALSE))
    ELSE IF open = <<>> THEN FALSE
    ELSE IF kinds[k] = "ifEnd" THEN Matched(kinds, k + 1, Front(open))
    ELSE IF Last(open) THEN FALSE
    ELSE Matched(kinds, k + 1, Append(Front(open), kinds[k] = "else"))

\* C20: a call on a program whose conditional directives do not match
\* fails, wherever the directive that is out of place stands.
CounterC20 ==
    \A p \in Calls :
        (calls[p].status = "done") => Matched(ChainKinds(calls[p].tokens), 1, <<>>)

(***************************************************************************)
(* C21.  Sources that start with "(": a list of names, numbers, commas     *)
(* and "+", and then one of the ends below.                                *)
(***************************************************************************)

\* The number of lexemes of the longest list after the "(".
MaxList == 3

ListLexemes == {"a", "b", ",", "1", "+"}

\* What follows the list.
ListEnds ==
    { <<")", " ", "=", ">", " ", "{", "}">>,
      <<")", " ", "=", ">", "\n", "{", "a", "}">>,
      <<")", " ", "=", ">", " ", "1">>,
      <<")", " ", "=", ">">>,
      <<")">>,
      <<")", " ", "+", " ", "1">>,
      <<")", " ", "+", " ", ")">>,
      <<"=", ">", " ", "{", "}">>,
      <<>> }

\* The lexemes with a blank after each.
Spaced(lexemes) == Flatten([k \in 1..Len(lexemes) |-> <<lexemes[k], " ">>])

ArrowSources ==
    { <<"(">> \o Spaced(list) \o end :
          list \in {<<>>} \cup SequencesUpTo(ListLexemes, MaxList), end \in ListEnds }

InitArrow ==
    /\ calls = Idle /\ heap = Idle /\ fs = Idle /\ turn = 0
    /\ expansion = Idle /\ lexer = Idle /\ build = Idle
    /\ \E source \in ArrowSources : parser = NewParser(source)

SpecArrow == InitArrow /\ [][NextParse]_vars

\* parseExpr() has ended on tokens that start with "(".
ParenEnded ==
    /\ parser.status \in {"parsed", "thrown"}
    /\ "method" \in DOMAIN parser
    /\ parser.method = "parseExpr"
    /\ KindAt(parser.tokens, 1) = "OpenParen"

\* The tokens 2, 4, ..., 2n are identifiers and the tokens between them
\* are commas.
NamesWithCommas(tokens, n) ==
    /\ \A k \in 1..n : KindAt(tokens, 2 * k) = "Identifier"
    /\ \A k \in 1..(n - 1) : KindAt(tokens, 2 * k + 1) = "Comma"

\* After the "(" come n identifiers with commas between them, then ")" and
\* "=>".
ArrowShape(tokens, n) ==
    /\ NamesWithCommas(tokens, n)
    /\ KindAt(tokens, IF n = 0 THEN 2 ELSE 2 * n + 1) = "CloseParen"
    /\ KindAt(tokens, IF n = 0 THEN 3 ELSE 2 * n + 2) = "Arrow"

\* The same with a comma after the last of the n identifiers, n > 0.
TrailingCommaShape(tokens, n) ==
    /\ n > 0
    /\ NamesWithCommas(tokens, n)
    /\ KindAt(tokens, 2 * n + 1) = "Comma"
    /\ KindAt(tokens, 2 * n + 2) = "CloseParen"
    /\ KindAt(tokens, 2 * n + 3) = "Arrow"

RECURSIVE Operand(_)
\* The first operand of the expression: the node of the nud handler.
Operand(node) == IF node.kind = "Binary" THEN Operand(node.left) ELSE node

ArrowOutcome(tokens, n, after) ==
    With(parseBlock(tokens, skipSeparators(tokens, after)),
         LAMBDA body :
             IF body.ok
             THEN /\ parser.status = "parsed"
                  /\ Operand(parser.node) =
                         [kind |-> "ArrowFunc",
                          params |-> [k \in 1..n |-> tokens[2 * k].value],
                          body |-> body.val]
             ELSE parser.status = "thrown" /\ parser.error = body)

\* What parseExpr() gives in every other case: a Group of the expression
\* that starts after the "(", or the error of that expression or of the
\* ")" that is missing.
GroupOutcome(tokens) ==
    With(parseExpr(tokens, 2, BP.None),
         LAMBDA inner :
             IF ~inner.ok THEN parser.status = "thrown" /\ parser.error = inner
             ELSE IF KindAt(tokens, inner.pos) # "CloseParen"
             THEN /\ parser.status = "thrown"
                  /\ parser.error = expect(tokens, inner.pos, "CloseParen")
             ELSE parser.status = "parsed" =>
                      Operand(parser.node) = [kind |-> "Group", inner |-> inner.val])

DecimalDigits == <<"0", "1", "2", "3", "4", "5", "6", "7", "8", "9">>

RECURSIVE DecimalString(_)
\* String(n) for an integer n >= 0: its decimal digits.
DecimalString(n) ==
    IF n < 10 THEN <<DecimalDigits[n + 1]>>
    ELSE DecimalString(n \div 10) \o <<DecimalDigits[(n % 10) + 1]>>

\* emitExpr of both backends on a Number, a String without quote or
\* backslash, and an Ident.
EmitLiteral(expr) ==
    CASE expr.kind = "Number" -> DecimalString(expr.value)
      [] expr.kind = "String" -> <<"\"", expr.value, "\"">>
      [] expr.kind = "Ident" -> <<expr.name>>

RECURSIVE JoinEntries(_)
\* entries.join(", ")
JoinEntries(entries) ==
    IF entries = <<>> THEN <<>>
    ELSE IF Len(entries) = 1 THEN entries[1]
    ELSE entries[1] \o <<", ">> \o JoinEntries(Tail(entries))

RECURSIVE JsEntries(_, _, _, _)
\* stmt.members.map(...) of the JS backend from member k on.
JsEntries(members, k, counter, entries) ==
    IF k > Len(members) THEN entries
    ELSE With(IF members[k].value # Null THEN EmitLiteral(members[k].value)
              ELSE DecimalString(counter),
              LAMBDA val :
                  JsEntries(members, k + 1,
                            IF members[k].value # Null /\ members[k].value.kind = "Number"
                            THEN members[k].value.value + 1
                            ELSE counter + 1,
                            Append(entries, <<members[k].name, ": ">> \o val)))

\* The case "EnumDecl" of JsBackend.emitStmt: the lines it adds.
JsEnumDecl(stmt) ==
    << [depth |-> 0,
        src |-> <<"const ", stmt.name, " = Object.freeze({ ">>
                    \o JoinEntries(JsEntries(stmt.members, 1, 0, <<>>))
                    \o <<" });">>] >>

RECURSIVE PyMembers(_, _, _, _)
\* The loop of emitEnumDecl from member k on.
PyMembers(members, k, counter, lines) ==
    IF k > Len(members) THEN lines
    ELSE IF members[k].value # Null
    THEN PyMembers(members, k + 1,
                   IF members[k].value.kind = "Number"
                   THEN members[k].value.value + 1 ELSE counter,
                   Append(lines,
                          [depth |-> 1,
                           src |-> <<members[k].name, " = ">>
                                       \o EmitLiteral(members[k].value)]))
    ELSE PyMembers(members, k + 1, counter + 1,
                   Append(lines,
                          [depth |-> 1,
                           src |-> <<members[k].name, " = ">> \o DecimalString(counter)]))

\* PythonBackend.emitEnumDecl: the lines it adds.
emitEnumDecl(name, members) ==
    << [depth |-> 0, src |-> <<"class ", name, "(IntEnum):">>] >>
    \o (IF Len(members) = 0 THEN << [depth |-> 1, src |-> <<"pass">>] >>
        ELSE PyMembers(members, 1, 0, <<>>))

\* An EnumDecl is given to the backends, each of which emits it once.
NewEmit(stmt) == [status |-> "emitting", stmt |-> stmt, js |-> Null, python |-> Null]

EmitJs ==
    /\ build.status = "emitting"
    /\ build.js = Null
    /\ build' = [build EXCEPT !.js = [lines |-> JsEnumDecl(build.stmt)]]
    /\ UNCHANGED <<ppVars, expansion, lexer, parser>>

EmitPython ==
    /\ build.status = "emitting"
    /\ build.python = Null
    /\ build' = [build EXCEPT !.python =
                             [lines |-> emitEnumDecl(build.stmt.name, build.stmt.members)]]
    /\ UNCHANGED <<ppVars, expansion, lexer, parser>>

NextEmit == EmitJs \/ EmitPython

\* The number of members of the longest enum.
MaxMembers == 3

MemberNames == <<"A", "B", "C", "D", "E">>

\* No initializer, a Number, a String and an Ident.
MemberValues ==
    { Null, [kind |-> "Number", value |-> 0], [kind |-> "Number", value |-> 10],
      [kind |-> "String", value |-> "s"], [kind |-> "Ident", name |-> "x"] }

EnumDecls ==
    { [kind |-> "EnumDecl", name |-> "E",
       members |-> [k \in 1..Len(values) |->
                       [name |-> MemberNames[k], value |-> values[k]]]] :
          values \in {<<>>} \cup SequencesUpTo(MemberValues, MaxMembers) }

InitEmit ==
    /\ calls = Idle /\ heap = Idle /\ fs = Idle /\ turn = 0
    /\ expansion = Idle /\ lexer = Idle /\ parser = Idle
    /\ \E stmt \in EnumDecls : build = NewEmit(stmt)

SpecEmit == InitEmit /\ [][NextEmit]_vars

(***************************************************************************)
(* C22.  The numbers of the members without initializer.                   *)
(***************************************************************************)

\* Member k has a numeric value: it is a Number literal or it has no
\* initializer, and then it is given a number.
IsNumeric(members, k) ==
    members[k].value = Null \/ members[k].value.kind = "Number"

RECURSIVE NumericValue(_, _)
\* The numeric value of such a member: that of its Number literal, and for
\* a member without initializer 0 when no earlier member has a numeric
\* value and otherwise 1 more than the closest earlier one that has.
NumericValue(members, k) ==
    IF members[k].value # Null THEN members[k].value.value
    ELSE With({j \in 1..(k - 1) : IsNumeric(members, j)},
              LAMBDA earlier :
                  IF earlier = {} THEN 0
                  ELSE NumericValue(members,
                                    CHOOSE j \in earlier : \A i \in earlier : i <= j) + 1)

\* What the JS backend emits as the value of member k: the text after
\* "name: " in the k-th entry.
JsValue(members, k) ==
    With(JsEntries(members, 1, 0, <<>>)[k], LAMBDA e : SubSeq(e, 3, Len(e)))

\* The line of the JS backend holds the entries of the members.
JsLineOf(members) ==
    [depth |-> 0,
     src |-> <<"const ", "E", " = Object.freeze({ ">>
                 \o JoinEntries([k \in 1..Len(members) |->
                                    <<members[k].name, ": ">> \o JsValue(members, k)])
                 \o <<" });">>]

\* What the Python backend emits as the value of member k: the text after
\* "name = " in the line of the member.
PyValue(lines, k) == SubSeq(lines[k + 1].src, 3, Len(lines[k + 1].src))

\* C22: in the output of both backends a member without initializer has
\* the value 0 when no earlier member has a numeric value and otherwise 1
\* more than the closest earlier member that has one.
CounterC22 ==
    (build.status = "emitting" /\ build.js # Null /\ build.python # Null) =>
        /\ build.js.lines = <<JsLineOf(build.stmt.members)>>
        /\ \A k \in 1..Len(build.stmt.members) :
            build.stmt.members[k].value = Null =>
                /\ JsValue(build.stmt.members, k)
                       = DecimalString(NumericValue(build.stmt.members, k))
                /\ PyValue(build.python.lines, k)
                       = DecimalString(NumericValue(build.stmt.members, k))

(***************************************************************************)
(* C23.  Chains inside the branches of a chain.  A chain is the condition  *)
(* of its $if, the body of that branch and its further branches; a body    *)
(* is a sequence of words, defined names and chains.                       *)
(***************************************************************************)

Word(w) == [word |-> w]

Defined(name) == [define |-> name]

Nested(chain) == [chain |-> chain]

Elif(c, body) == [kind |-> "elif", c |-> c, body |-> body]

Else(body) == [kind |-> "else", c |-> "1", body |-> body]

\* The further branches of the inner chains.
InnerBranches ==
    { <<>>,
      <<Elif("0", <<Word("b")>>)>>,
      <<Elif("1", <<Word("b")>>)>>,
      <<Else(<<Word("c")>>)>>,
      <<Elif("0", <<Word("b")>>), Else(<<Word("c")>>)>>,
      <<Elif("1", <<Word("b")>>), Else(<<Word("c")>>)>> }

\* $if c ${ a $define E 1 } with further branches.
InnerChains ==
    { [c |-> c, then |-> <<Word("a"), Defined("E")>>, branches |-> bs] :
          c \in {"0", "1"}, bs \in InnerBranches }

\* A chain with an inner chain between two words in its only branch.
DeepChains ==
    { [c |-> c, then |-> <<Word("u"), Nested(inner), Word("v")>>, branches |-> <<>>] :
          c \in {"0", "1"},
          inner \in { ch \in InnerChains : Len(ch.branches) = 2 /\ ch.branches[1].c = "1" } }

\* The outer chains: an inner or deep chain between two words in the
\* branch of the $if, and the same in an $else branch if there is one.
OuterChains ==
    { [c |-> c, then |-> <<Word("p"), Nested(n1), Word("q")>>, branches |-> <<>>] :
          c \in {"0", "1"}, n1 \in InnerChains \cup DeepChains }
    \cup
    { [c |-> c, then |-> <<Word("p"), Nested(n1), Word("q")>>,
       branches |-> <<Else(<<Word("r"), Nested(n2), Word("s")>>)>>] :
          c \in {"0", "1"}, n1 \in InnerChains \cup DeepChains,
          n2 \in InnerChains \cup DeepChains }

RECURSIVE LinesOfBody(_)
RECURSIVE LinesOfChain(_)
\* The source lines of a body.
LinesOfBody(body) ==
    Flatten([k \in 1..Len(body) |->
                IF "word" \in DOMAIN body[k] THEN << <<body[k].word>> >>
                ELSE IF "define" \in DOMAIN body[k]
                THEN << <<"$define", " ", body[k].define, " ", "1">> >>
                ELSE LinesOfChain(body[k].chain)])

\* The source lines of a chain.
LinesOfChain(chain) ==
    << <<"$if", " ", chain.c, " ", "${">> >> \o LinesOfBody(chain.then) \o << <<"}">> >>
    \o Flatten([k \in 1..Len(chain.branches) |->
                   << IF chain.branches[k].kind = "else" THEN <<"$else", " ", "${">>
                      ELSE <<"$elif", " ", chain.branches[k].c, " ", "${">> >>
                   \o LinesOfBody(chain.branches[k].body) \o << <<"}">> >>])
    \o << <<"$fi">> >>

\* The program of an outer chain: the chain and, after its $fi, a line
\* with a word and the name that the inner chains define.
NestedProgram(outer) == LinesOfChain(outer) \o << <<"t", " ", "E">> >>

InitNested ==
    InitOne({NestedProgram(outer) : outer \in OuterChains} \cup CorePrograms)

SpecNested == InitNested /\ [][NextPP]_vars

\* The body of the branch of the chain that is selected, <<>> when none
\* is: the conditions are the literals 0 and 1.
SelectedBody(chain) ==
    IF chain.c = "1" THEN chain.then
    ELSE With({k \in 1..Len(chain.branches) : chain.branches[k].c = "1"},
              LAMBDA true :
                  IF true = {} THEN <<>>
                  ELSE chain.branches[CHOOSE k \in true : \A j \in true : k <= j].body)

RECURSIVE WordsOf(_)
\* The words that a body sends to the output, each with the newline of
\* its line: those of the body itself and of the selected branches of its
\* chains.
WordsOf(body) ==
    Flatten([k \in 1..Len(body) |->
                IF "word" \in DOMAIN body[k] THEN <<body[k].word, "\n">>
                ELSE IF "define" \in DOMAIN body[k] THEN <<>>
                ELSE WordsOf(SelectedBody(body[k].chain))])

RECURSIVE NamesOf(_)
\* The names that a body defines.
NamesOf(body) ==
    UNION { IF "word" \in DOMAIN body[k] THEN {}
            ELSE IF "define" \in DOMAIN body[k] THEN {body[k].define}
            ELSE NamesOf(SelectedBody(body[k].chain)) : k \in 1..Len(body) }

\* The outer chains, each with the tokens of its program.
NestedTokens == { <<outer, TokenizeLines(NestedProgram(outer)).val>> : outer \in OuterChains }

\* The outer chains on whose program call p is a call.
OuterOf(p) ==
    IF calls[p].status = "absent" THEN {}
    ELSE { e[1] : e \in {e \in NestedTokens : e[2] = calls[p].tokens} }

\* C23: a call on a program whose chain holds complete chains in its
\* branches does not fail, and it returns the words of the selected branch
\* of the outer chain, among them those of the selected branches of the
\* chains inside it, and then the line after the outer $fi, expanded under
\* the names that the selected branches define.
ClaimC23 ==
    \A p \in Calls : \A outer \in OuterOf(p) :
        /\ calls[p].status # "failed"
        /\ calls[p].status = "done" =>
               /\ TokenValues(calls[p].result.tokens) =
                      WordsOf(<<Nested(outer)>>)
                      \o <<"t", IF "E" \in NamesOf(<<Nested(outer)>>) THEN "1" ELSE "E", "">>
               /\ DOMAIN calls[p].result.defines =
                      {"__BACKEND__"} \cup NamesOf(<<Nested(outer)>>)

\* $if 1 with, between p and q, the chain $if 0 / $elif 1 / $else, and an
\* $else branch with a chain of its own: the output is p, the b of the
\* $elif, q and the line after the outer $fi, and E is not defined.
WitnessC23 ==
    /\ \E outer \in OuterOf(1) :
           /\ outer.c = "1"
           /\ outer.then[2].chain \in InnerChains
           /\ outer.then[2].chain.c = "0"
           /\ Len(outer.then[2].chain.branches) = 2
           /\ Len(outer.branches) = 1
    /\ calls[1].status = "done"
    /\ TokenValues(calls[1].result.tokens) =
           <<"p", "\n", "b", "\n", "q", "\n", "t", "E", "">>

(***************************************************************************)
(* Conditions.  M is defined as 1, Z as 0, Q as ==, K as K; the condition  *)
(* stands in the $if or in the $elif of a chain whose branches hold y and  *)
(* whose $else holds n.                                                    *)
(***************************************************************************)

\* What stands on one side of an operator, or alone as a condition.
Sides ==
    { <<>>, <<"1">>, <<"0">>, <<"M">>, <<"Z">>, <<"U">>, <<"K">>, <<"true">>,
      <<"false">>, <<"null">>, <<"undefined">>, <<"FALSE">>, <<"fal", "se">>,
      <<"nu", "ll">>, <<"F", "A", "L", "S", "E">>, <<"1", "0">>, <<"Z", "0">>,
      <<"Q">>, <<"\"js\"">> }

ConditionWords ==
    Sides \cup { left \o <<op>> \o right : left, right \in Sides, op \in {"==", "!=", "Q"} }

\* The words with a blank after each.
ConditionText(words) == Flatten([k \in 1..Len(words) |-> <<words[k], " ">>])

ConditionPrelude ==
    << <<"$define", " ", "M", " ", "1">>, <<"$define", " ", "Z", " ", "0">>,
       <<"$define", " ", "Q", " ", "==">>, <<"$define", " ", "K", " ", "K">> >>

\* The program with the condition in the $if, or in the $elif after $if 0.
ConditionProgram(words, inElif) ==
    ConditionPrelude
    \o (IF inElif
        THEN << <<"$if", " ", "0", " ", "${">>, <<"x">>, <<"}">>,
                <<"$elif", " ">> \o ConditionText(words) \o <<"${">> >>
        ELSE << <<"$if", " ">> \o ConditionText(words) \o <<"${">> >>)
    \o << <<"y">>, <<"}">>, <<"$else", " ", "${">>, <<"n">>, <<"}">>, <<"$fi">> >>

ConditionPrograms ==
    { ConditionProgram(words, inElif) : words \in ConditionWords, inElif \in BOOLEAN }

InitCondition == InitOne(ConditionPrograms \cup CorePrograms)

SpecCondition == InitCondition /\ [][NextPP]_vars

\* The conditions, each with the tokens of its two programs.
ConditionTokens ==
    { <<words, TokenizeLines(ConditionProgram(words, inElif)).val>> :
          words \in ConditionWords, inElif \in BOOLEAN }

\* The conditions on whose program call p is a call.
ConditionsOf(p) ==
    IF calls[p].status = "absent" THEN {}
    ELSE { e[1] : e \in {e \in ConditionTokens : e[2] = calls[p].tokens} }

\* The call has ended and has taken the branch of the condition.
TookBranch(p) ==
    calls[p].status = "done" /\ TokenValues(calls[p].result.tokens) = <<"y", "\n", "">>

\* The call has ended and has taken the $else.
TookElse(p) ==
    calls[p].status = "done" /\ TokenValues(calls[p].result.tokens) = <<"n", "\n", "">>

\* The call has ended, one way or the other.
Ended(p) == calls[p].status \in {"done", "failed"}

\* The words of the condition after macro expansion.
Expanded(words) ==
    Flatten([k \in 1..Len(words) |->
                CASE words[k] = "M" -> <<"1">>
                  [] words[k] = "Z" -> <<"0">>
                  [] words[k] = "Q" -> <<"==">>
                  [] OTHER -> <<words[k]>>])

\* The concatenated values of the words.
TextOf(words) == Flatten([k \in 1..Len(words) |-> Chars(words[k])])

\* The index of the first == or != of the words, 0 when there is none.
FirstOperator(words) ==
    With({k \in 1..Len(words) : words[k] \in {"==", "!="}},
         LAMBDA ops : IF ops = {} THEN 0 ELSE CHOOSE k \in ops : \A j \in ops : k <= j)

\* The equality, for ==, or the inequality, for !=, of the text on the
\* left of the operator at index k and the text on the right of it.
Compared(words, k) ==
    (words[k] = "==") <=>
        (TextOf(SubSeq(words, 1, k - 1)) = TextOf(SubSeq(words, k + 1, Len(words))))

(***************************************************************************)
(* C24.  Conditions with == or !=.                                         *)
(***************************************************************************)

\* The statement as it is worded: whenever the expanded condition holds
\* an == or !=, the branch is taken exactly when the texts on the two
\* sides of it are equal, or unequal.
CounterC24 ==
    \A p \in Calls : \A words \in ConditionsOf(p) :
        (Ended(p) /\ FirstOperator(Expanded(words)) # 0) =>
            IF Compared(Expanded(words), FirstOperator(Expanded(words)))
            THEN TookBranch(p) ELSE TookElse(p)

\* C24: when the expanded condition holds an == or != with at least one
\* token on each side of the first one, the branch is taken exactly when
\* the text on the left of that operator and the text on the right of it
\* are equal, for ==, or unequal, for !=.
ClaimC24 ==
    \A p \in Calls : \A words \in ConditionsOf(p) :
        (/\ Ended(p)
         /\ FirstOperator(Expanded(words)) > 1
         /\ FirstOperator(Expanded(words)) < Len(Expanded(words))) =>
            IF Compared(Expanded(words), FirstOperator(Expanded(words)))
            THEN TookBranch(p) ELSE TookElse(p)

\* M == 1 has taken the branch: M is expanded before the comparison.
WitnessC24 ==
    /\ <<"M", "==", "1">> \in ConditionsOf(1)
    /\ TookBranch(1)

(***************************************************************************)
(* C25.  Conditions without == and !=.                                     *)
(***************************************************************************)

\* The words are one identifier.
OneIdentifier(words) ==
    Len(words) = 1 /\ words[1] \notin {"1", "0", "==", "!=", "\"js\""}

\* C25: when the expanded condition holds no == and no !=, the branch is
\* taken, for a single identifier, when it is true or, being another name
\* than false, the name of a macro; and for any other condition when its
\* text in lower case is none of "", 0, false, null, undefined.
ClaimC25 ==
    \A p \in Calls : \A words \in ConditionsOf(p) :
        (Ended(p) /\ words # <<>> /\ FirstOperator(Expanded(words)) = 0) =>
            IF IF OneIdentifier(Expanded(words))
               THEN \/ Expanded(words)[1] = "true"
                    \/ /\ Expanded(words)[1] # "false"
                       /\ Expanded(words)[1] \in {"M", "Z", "Q", "K", "__BACKEND__"}
               ELSE toLowerCase(TextOf(Expanded(words))) \notin
                        {<<>>, <<"0">>, <<"f", "a", "l", "s", "e">>, <<"n", "u", "l", "l">>,
                         <<"u", "n", "d", "e", "f", "i", "n", "e", "d">>}
            THEN TookBranch(p) ELSE TookElse(p)

\* F A L S E, five names, has taken the $else: in lower case its text is
\* false.
WitnessC25 ==
    /\ <<"F", "A", "L", "S", "E">> \in ConditionsOf(1)
    /\ TookElse(1)

(***************************************************************************)
(* C26.  The empty condition.                                              *)
(***************************************************************************)

\* C26: a call on a chain whose $if or $elif has nothing before the ${
\* goes on to the next branch, here the $else.
CounterC26 ==
    \A p \in Calls : (<<>> \in ConditionsOf(p) /\ Ended(p)) => TookElse(p)

(***************************************************************************)
(* C27.  A replacement is stored as written and expanded at each use.      *)
(***************************************************************************)

MaxLate == 3

\* A use of A, the $define of A as B, and what can happen to B.
LateFragments ==
    { << <<"A">> >>,
      << <<"$define", " ", "A", " ", "B">> >>,
      << <<"$define", " ", "B", " ", "1">> >>,
      << <<"$define", " ", "B", " ", "2">> >>,
      << <<"$undefine", " ", "B">> >> }

\* B defined before A and after it, defined again, and undefined, with a
\* use of A after each.
LateScenarios ==
    { << <<"$define", " ", "A", " ", "B">>, <<"$define", " ", "B", " ", "1">>, <<"A">>,
         <<"$define", " ", "B", " ", "2">>, <<"A">>, <<"$undefine", " ", "B">>, <<"A">> >>,
      << <<"$define", " ", "B", " ", "1">>, <<"$define", " ", "A", " ", "B">>, <<"A">>,
         <<"$undefine", " ", "B">>, <<"A">>, <<"$define", " ", "B", " ", "2">>, <<"A">> >> }

LatePrograms == Concatenations(LateFragments, MaxLate) \cup LateScenarios

InitLate == InitOne(LatePrograms \cup CorePrograms)

SpecLate == InitLate /\ [][NextPP]_vars

\* The programs, each with its tokens.
LateTokens == { <<lines, TokenizeLines(lines).val>> : lines \in LatePrograms }

\* The programs on whose tokens call p is a call.
LateOf(p) ==
    IF calls[p].status = "absent" THEN {}
    ELSE { e[1] : e \in {e \in LateTokens : e[2] = calls[p].tokens} }

\* The lines before line k that define or undefine B.
TouchB(lines, k) == {j \in 1..(k - 1) : Len(lines[j]) >= 3 /\ lines[j][3] = "B"}

\* What B stands for at line k: its latest value, or its own name.
ValueOfB(lines, k) ==
    With(TouchB(lines, k),
         LAMBDA touch :
             IF touch = {} THEN "B"
             ELSE With(lines[CHOOSE j \in touch : \A i \in touch : i <= j],
                       LAMBDA line : IF line[1] = "$define" THEN line[5] ELSE "B"))

\* What a use of A at line k yields: A before its $define, and after it
\* what B stands for at line k.
UseOfA(lines, k) ==
    IF \E j \in 1..(k - 1) : lines[j] = <<"$define", " ", "A", " ", "B">>
    THEN ValueOfB(lines, k)
    ELSE "A"

\* What the uses of A yield, in order.
Uses(lines) ==
    Flatten([k \in 1..Len(lines) |->
                IF lines[k] = <<"A">> THEN <<UseOfA(lines, k)>> ELSE <<>>])

\* The values of the tokens but line ends and the end of file.
Yield(tokens) ==
    SelectSeq(TokenValues(tokens), LAMBDA v : v # "\n" /\ v # "")

\* C27: the table holds for A the token B of its $define whatever B stands
\* for, and in a call that has ended every use of A has yielded what B
\* stood for at that use: the value of the latest $define of B before the
\* use, whether it comes before or after the $define of A, and B itself
\* when B is not defined or has been undefined.
ClaimC27 ==
    \A p \in Calls : \A lines \in LateOf(p) :
        /\ "A" \in DOMAIN heap[p].macros =>
               TokenValues(heap[p].macros["A"].replacement) = <<"B">>
        /\ calls[p].status # "failed"
        /\ calls[p].status = "done" => Yield(calls[p].result.tokens) = Uses(lines)

\* The first scenario has ended with 1, 2 and B.
WitnessC27 ==
    /\ calls[1].status = "done"
    /\ \E lines \in LateOf(1) : Len(lines) = 7 /\ lines[2] = <<"$define", " ", "B", " ", "1">>
    /\ Yield(calls[1].result.tokens) = <<"1", "2", "B">>

(***************************************************************************)
(* C28.  Arguments that hold parameter names.                              *)
(***************************************************************************)

MaxArgument == 2

\* SWAP(a, b) = b a, TWICE(a, b) = a + b a and ROT(a, b, c) = c a b, alone
\* and with an object-like macro c.
HygieneMacros ==
    ("SWAP" :> MacroDef(Some(<<"a", "b">>), Toks(<<"b", "a">>)))
    @@ ("TWICE" :> MacroDef(Some(<<"a", "b">>), Toks(<<"a", "+", "b", "a">>)))
    @@ ("ROT" :> MacroDef(Some(<<"a", "b", "c">>), Toks(<<"c", "a", "b">>)))

HygieneTables == {HygieneMacros, HygieneMacros @@ ("c" :> MacroDef(Null, Toks(<<"7">>)))}

\* Arguments made of the parameter names.
HygieneArguments == SequencesUpTo({"a", "b", "c"}, MaxArgument)

\* The call of macro `name` with these arguments.
HygieneCall(name, arguments) ==
    Toks(<<name, "(">>
         \o Flatten([k \in 1..Len(arguments) |->
                        IF k = 1 THEN arguments[k] ELSE <<",">> \o arguments[k]])
         \o <<")">>)

HygieneInputs ==
    {HygieneCall(n, <<x, y>>) : n \in {"SWAP", "TWICE"}, x, y \in HygieneArguments}
    \cup {HygieneCall("ROT", <<x, <<y>>, <<z>> >>) :
              x \in HygieneArguments, y, z \in {"a", "b", "c", "1"}}

InitHygiene ==
    /\ calls = Idle /\ heap = Idle /\ turn = 0 /\ fs = Idle
    /\ lexer = Idle /\ parser = Idle /\ build = Idle
    /\ \E t \in HygieneTables, i \in HygieneInputs : expansion = NewExpansion(i, t)

SpecHygiene == InitHygiene /\ [][NextExpand]_vars

\* The indexes of the commas of the words.
CommasOf(words) == {k \in 1..Len(words) : words[k] = ","}

\* The j-th of the stretches of words that the commas separate.
Stretch(words, j) ==
    With({0} \cup CommasOf(words) \cup {Len(words) + 1},
         LAMBDA cuts :
             With(CHOOSE k \in cuts : Cardinality({c \in cuts : c < k}) = j - 1,
                  LAMBDA from :
                      SubSeq(words, from + 1,
                             (CHOOSE k \in cuts :
                                  Cardinality({c \in cuts : c < k}) = j) - 1)))

\* The words of the arguments of the call that is expanded, in order.
ArgumentsOfCall ==
    With(TokenValues(expansion.tokens),
         LAMBDA words :
             With(SubSeq(words, 3, Len(words) - 1),
                  LAMBDA inner :
                      [j \in 1..(Cardinality(CommasOf(inner)) + 1) |-> Stretch(inner, j)]))

\* The words of the replacement of the macro that is called, and its
\* parameters.
BodyOfCall == TokenValues(expansion.macros[expansion.tokens[1].value].replacement)

ParametersOfCall == expansion.macros[expansion.tokens[1].value].parameters.some

\* The words of the replacement with each parameter of the replacement
\* replaced by the words of its argument, and nothing else replaced.
ReplacedAtOnce ==
    Flatten([k \in 1..Len(BodyOfCall) |->
                IF \E j \in 1..Len(ParametersOfCall) : ParametersOfCall[j] = BodyOfCall[k]
                THEN ArgumentsOfCall[CHOOSE j \in 1..Len(ParametersOfCall) :
                                         ParametersOfCall[j] = BodyOfCall[k]]
                ELSE <<BodyOfCall[k]>>])

\* The words with the object-like macros of the table expanded.
ObjectsExpanded(words) ==
    [k \in 1..Len(words) |->
        IF words[k] = "c" /\ "c" \in DOMAIN expansion.macros THEN "7" ELSE words[k]]

\* C28: the call of a function-like macro returns its replacement with
\* every parameter of the replacement replaced by the tokens of its
\* argument as the caller wrote them: a parameter name inside an argument
\* is not replaced in turn (it is expanded only as the macro it may name).
ClaimC28 ==
    /\ expansion.status # "thrown"
    /\ expansion.status = "returned" =>
           TokenValues(expansion.result) = ObjectsExpanded(ReplacedAtOnce)

\* SWAP(b, a) has returned a b.
WitnessC28 ==
    /\ expansion.status = "returned"
    /\ TokenValues(expansion.tokens) = <<"SWAP", "(", "b", ",", "a", ")">>
    /\ TokenValues(expansion.result) = <<"a", "b">>

(***************************************************************************)
(* C29.  The include stack is the chain of the includes that are open.     *)
(***************************************************************************)

\* The include stacks of two streams of a call, the second called by the
\* first: the same stack for a branch body, and for a header the stack of
\* the including stream with the path of the header, whose tokens the
\* stream holds, added at its end.
CalledFrom(f, g) ==
    \/ f.includeStack = g.includeStack /\ f.baseDir = g.baseDir
    \/ /\ f.includeStack # <<>>
       /\ Front(f.includeStack) = g.includeStack
       /\ Last(f.includeStack) \in DOMAIN fs
       /\ f.tokens = Front(TokenizeLines(fs[Last(f.includeStack)]).val)
       /\ f.baseDir = PathDirname(Last(f.includeStack))
       /\ ~f.emitOutput

\* The outermost stream has an empty include stack, every other stream the
\* stack that its call gave it, and no path is twice on a stack.
OpenIncludes(st) ==
    st.frames # <<>> =>
        /\ st.frames[1].includeStack = <<>>
        /\ \A k \in 2..Len(st.frames) : CalledFrom(st.frames[k], st.frames[k - 1])
        /\ \A j, k \in DOMAIN Top(st).includeStack :
               Top(st).includeStack[j] = Top(st).includeStack[k] => j = k

\* The headers that the $include lines of the header `name` name.
TargetsOf(name) ==
    IF <<"src", name>> \notin DOMAIN fs THEN {}
    ELSE {fs[<<"src", name>>][k][3] :
             k \in {j \in DOMAIN fs[<<"src", name>>] :
                       fs[<<"src", name>>][j][1] = "$include"}}

\* A header that a.feph reaches includes a header that is open then.
IncludesInCircle ==
    \/ "a.feph" \in TargetsOf("a.feph")
    \/ /\ "b.feph" \in TargetsOf("a.feph")
       /\ TargetsOf("b.feph") \cap {"a.feph", "b.feph"} # {}

\* C29: the include stack of every stream is the chain of the headers
\* that are open around it, without duplicates; no step changes the stack
\* of a stream that goes on, so that after an $include has returned the
\* including stream has the stack it had before; and a call fails with the
\* circular-include error only when a header includes a header that is
\* open, not when a header is included twice in sequence or by two
\* different headers.
ClaimC29 ==
    /\ [](\A p \in Calls :
              /\ OpenIncludes(calls[p])
              /\ (/\ calls[p].status = "failed"
                  /\ calls[p].error.msg = "Circular $include detected for '%'.")
                     => IncludesInCircle)
    /\ [][\A p \in Calls :
              \A k \in DOMAIN calls[p].frames \cap DOMAIN calls'[p].frames :
                  calls'[p].frames[k].includeStack = calls[p].frames[k].includeStack]_vars

\* a.feph includes b.feph and then h.feph, b.feph includes h.feph: h.feph
\* has been read for b.feph, and is open a second time, for a.feph.
WitnessC29 ==
    /\ calls[1].status = "running"
    /\ calls[1].reads = << <<"src", "a.feph">>, <<"src", "b.feph">>,
                           <<"src", "h.feph">>, <<"src", "h.feph">> >>
    /\ calls[1].frames # <<>>
    /\ Top(calls[1]).includeStack = << <<"src", "a.feph">>, <<"src", "h.feph">> >>

(***************************************************************************)
(* C30.  parseProgram statement by statement: the loop of parseProgram     *)
(* with the position of the parser and the statements parsed so far.       *)
(***************************************************************************)

MaxLexemes == 3

ProgressLexemes ==
    { <<"a">>, <<"(">>, <<")">>, <<"{">>, <<"}">>, <<"\n">>, <<"=">>,
      <<"r", "e", "t", "u", "r", "n">> }

\* The lexemes with a blank after each.
ProgressSource(lexemes) == Flatten([k \in 1..Len(lexemes) |-> lexemes[k] \o <<" ">>])

ProgressSources ==
    {<<>>} \cup {ProgressSource(l) : l \in SequencesUpTo(ProgressLexemes, MaxLexemes)}
           \cup SampleSources

InitProgress ==
    /\ calls = Idle /\ heap = Idle /\ fs = Idle /\ turn = 0
    /\ expansion = Idle /\ lexer = Idle /\ build = Idle
    /\ \E source \in ProgressSources : parser = NewParser(source)

\* parseProgram() is called: `stmts = []; this.skipSeparators()`.
BeginProgram ==
    /\ parser.status = "created"
    /\ parser' = [status |-> "parsing", source |-> parser.source, tokens |-> parser.tokens,
                  pos |-> skipSeparators(parser.tokens, 1), stmts |-> <<>>]
    /\ UNCHANGED <<ppVars, expansion, lexer, build>>

\* One turn of the loop: `stmts.push(this.parseStmt()); this.skipSeparators()`.
ParseStatement ==
    /\ parser.status = "parsing"
    /\ ~atEnd(parser.tokens, parser.pos)
    /\ \E stmt \in {parseStmt(parser.tokens, parser.pos)} :
           parser' =
               IF stmt.ok
               THEN [parser EXCEPT !.pos = skipSeparators(parser.tokens, stmt.pos),
                                   !.stmts = Append(parser.stmts, stmt.val)]
               ELSE Returned(parser, "parseProgram", stmt)
    /\ UNCHANGED <<ppVars, expansion, lexer, build>>

\* The loop ends at the EOF token: `return { kind: "Program", stmts }`.
EndProgram ==
    /\ parser.status = "parsing"
    /\ atEnd(parser.tokens, parser.pos)
    /\ parser' = Returned(parser, "parseProgram",
                          Ok([kind |-> "Program", stmts |-> parser.stmts]))
    /\ UNCHANGED <<ppVars, expansion, lexer, build>>

NextProgress == CreateParser \/ BeginProgram \/ ParseStatement \/ EndProgram

\* The parser is synchronous code: it runs on.
SpecProgress == InitProgress /\ [][NextProgress]_vars /\ WF_vars(NextProgress)

\* The tokens end with their only EOF token.
EndsWithEOF(tokens) ==
    /\ tokens # <<>>
    /\ \A k \in 1..Len(tokens) : (tokens[k].kind = "EOF") <=> (k = Len(tokens))

\* A call at position pos that returns has consumed a token and has not
\* passed the EOF token.
Consumes(result, tokens, pos) ==
    result.ok => (result.pos > pos /\ result.pos <= Len(tokens))

\* parseStmt, parseExpr and parseBlock, called at any position of the
\* tokens, consume a token or throw.
ConsumeEverywhere(tokens) ==
    \A pos \in 1..Len(tokens) :
        /\ Consumes(parseStmt(tokens, pos), tokens, pos)
        /\ Consumes(parseExpr(tokens, pos, 0), tokens, pos)
        /\ Consumes(parseBlock(tokens, pos), tokens, pos)

\* C30: on tokens that end with EOF, parseProgram ends, with the Program
\* or the error that parseProgram gives; every parseStmt that returns has
\* consumed at least one token, in the loop of parseProgram and wherever
\* else it is called; the position never decreases and never passes the
\* EOF token.
ClaimC30 ==
    /\ [](/\ parser.status = "created" =>
                 (EndsWithEOF(parser.tokens) /\ ConsumeEverywhere(parser.tokens))
          /\ parser.status = "parsing" =>
                 (parser.pos >= 1 /\ parser.pos <= Len(parser.tokens))
          /\ (parser.status \in {"parsed", "thrown"} /\ "tokens" \in DOMAIN parser) =>
                 parser = Returned(parser, "parseProgram", parseProgram(parser.tokens)))
    /\ [][(parser.status = "parsing" /\ parser'.status = "parsing") =>
              (parser'.pos > parser.pos /\ Len(parser'.stmts) = Len(parser.stmts) + 1)]_vars
    /\ <>(parser.status \in {"parsed", "thrown"})

\* The two statements of two lines have been parsed, and the parser
\* stands at the EOF token.
WitnessC30 ==
    /\ parser.status = "parsing"
    /\ Len(parser.tokens) >= 4
    /\ parser.tokens[1].value = "a"
    /\ parser.tokens[2].kind = "Newline"
    /\ parser.tokens[3].kind = "Return"
    /\ Len(parser.stmts) = 2
    /\ parser.pos = Len(parser.tokens)

====
